---- MODULE Spec2Model ----
(***************************************************************************)
(* Model of the sales-order converter (src/src/converter.py) and of its     *)
(* shells: the CLI, the legacy converter, the folder watchers and the HTTP *)
(* application.                                                            *)
(*                                                                         *)
(* Text values are sequences of one-character strings, so that trimming,   *)
(* whitespace removal, upper-casing, comma removal and number parsing are  *)
(* computed character by character as the code computes them.              *)
(* Column names and output field names are plain strings: the code only    *)
(* compares them with each other.                                          *)
(***************************************************************************)
EXTENDS Integers, Sequences, FiniteSets, TLC

VARIABLES
    sp_file,          \* contents of "Sales Person List.csv" (NoFile when absent)
    SALESPERSON_MAP,  \* the module global _SALESPERSON_MAP (NoMap = None)
    epicor_rows,      \* argument of convert_rows: rows as csv.DictReader yields them
    header_keys,      \* list(epicor_rows[0].keys())
    doc_key,          \* resolved document-number column, NoKey = None
    customer_key,     \* resolved customer column, NoKey = None
    cust_key,         \* resolved customer-code column, NoKey = None
    sp_map,           \* the local sp_map of convert_rows
    pc,               \* position inside convert_rows
    idx,              \* index of the next row the for loop takes
    current_doc,      \* local current_doc (None before the first group)
    first,            \* local first of the single-order fallback
    quotation_number, \* local quotation_number of the single-order fallback
    template_rows,    \* the output list under construction
    \* the process across calls of convert_rows
    calls,            \* convert_rows calls begun in this process
    loads,            \* executions of _load_salesperson_map so far
    map_id,           \* identity of the object _SALESPERSON_MAP holds (0 = None)
    prev_input,       \* argument of the previous convert_rows call
    prev_rows,        \* return value of the previous convert_rows call
    \* detect_delimiter and parse_rows
    file_bytes,       \* the bytes of the input file
    ppc,              \* position inside detect_delimiter / parse_rows
    delimiter,        \* return value of detect_delimiter
    parsed_rows,      \* the list `rows` parse_rows builds and returns
    \* threads inside _get_salesperson_map
    tpc,              \* each thread's position inside _get_salesperson_map
    tloaded,          \* each thread's result of _load_salesperson_map()
    tret,             \* identity of the object each thread was returned
    \* a folder of CSV files run through the CLI or the legacy converter
    tool,             \* "cli" (sales_order_cli.py) or "legacy" (process_all_files)
    fate,             \* per file: "ok", "unreadable" (open fails), "unwritable",
                      \* "unmovable" (shutil.move fails)
    queue,            \* the files the folder loop has still to take
    bpc,              \* position inside the folder loop / process_one
    cur_file,         \* the file being processed
    writes,           \* per file: times <base>_converted.csv was written
    raised,           \* files whose process_one / process_file call raised
    processed,        \* files whose process_one / process_file call returned
    moved,            \* input files the legacy converter moved away
    \* auto_converter.watch_and_process and the converter it runs
    folder,           \* names present in to_be_processed
    arrived,          \* names that have appeared in to_be_processed so far
    processed_files,  \* local processed_files of watch_and_process
    wpc,              \* position inside watch_and_process
    cpc,              \* position of the converter subprocess
    csv_files,        \* local csv_files of process_all_files
    converted,        \* files the running converter has converted
    returncode,       \* result.returncode of the last converter run
    seen,             \* names some converter run has had in its csv_files
    \* file_watcher.main and SalesOrderFileWatcher
    fpc,              \* position inside main / watch_folder
    attrs,            \* the watcher's instance attributes (its __dict__)
    requirements,     \* the converter script is present
    current_files,    \* local current_files of watch_folder
    arrivals,         \* files dropped into the watch folder so far
    untriggered,      \* names dropped during the polling loop and not yet
                      \* counted as new by a round of the loop
    \* app.py: requests to POST /convert and the temporary files
    requests,         \* per request: position, worker, filename, bytes, response
    temp_files        \* per filename: the bytes stored under to_be_processed

conv_vars == << sp_file, SALESPERSON_MAP, epicor_rows, header_keys, doc_key,
                customer_key, cust_key, sp_map, pc, idx, current_doc, first,
                quotation_number, template_rows >>

call_vars == << calls, loads, map_id, prev_input, prev_rows >>

parse_vars == << file_bytes, ppc, delimiter, parsed_rows >>

thread_vars == << tpc, tloaded, tret >>

batch_vars == << tool, fate, queue, bpc, cur_file, writes, raised, processed,
                 moved >>

watch_vars == << folder, arrived, processed_files, wpc, cpc, csv_files,
                 converted, returncode, seen >>

fw_vars == << fpc, attrs, requirements, current_files, arrivals, untriggered >>

http_vars == << requests, temp_files >>

shell_vars == << fw_vars, http_vars >>

\* Everything outside one convert_rows call and the process around it.
other_vars == << parse_vars, thread_vars, batch_vars, watch_vars,
                    shell_vars >>

vars == << conv_vars, call_vars, other_vars >>

-----------------------------------------------------------------------------
(* Text primitives                                                         *)

\* Python's None where a text value is expected (a short csv row leaves the
\* trailing fields None; current_doc starts as None).
None == << "None" >>

\* The empty string ''.
Empty == << >>

\* Characters str.strip() and the regular expression \s treat as whitespace.
IsSpace(c) == c \in {" ", "\t", "\n", "\r"}

IsDigit(c) == c \in {"0", "1", "2", "3", "4", "5", "6", "7", "8", "9"}

DigitVal(c) ==
    CASE c = "0" -> 0 [] c = "1" -> 1 [] c = "2" -> 2 [] c = "3" -> 3
      [] c = "4" -> 4 [] c = "5" -> 5 [] c = "6" -> 6 [] c = "7" -> 7
      [] c = "8" -> 8 [] c = "9" -> 9

DigitChar(d) == << "0", "1", "2", "3", "4", "5", "6", "7", "8", "9" >>[d + 1]

RECURSIVE LStrip(_)
LStrip(s) ==
    IF s = << >> THEN << >>
    ELSE IF IsSpace(Head(s)) THEN LStrip(Tail(s)) ELSE s

RECURSIVE RStrip(_)
RStrip(s) ==
    IF s = << >> THEN << >>
    ELSE IF IsSpace(s[Len(s)]) THEN RStrip(SubSeq(s, 1, Len(s) - 1)) ELSE s

\* str.strip()
Strip(s) == RStrip(LStrip(s))

RECURSIVE RemoveChars(_, _)
RemoveChars(s, drop) ==
    IF s = << >> THEN << >>
    ELSE IF Head(s) \in drop THEN RemoveChars(Tail(s), drop)
         ELSE << Head(s) >> \o RemoveChars(Tail(s), drop)

\* re.sub(r'\s+', '', s)
RemoveWhitespace(s) == RemoveChars(s, {" ", "\t", "\n", "\r"})

\* s.replace(',', '')
RemoveCommas(s) == RemoveChars(s, {","})

LowerLetters ==
    << "a", "b", "c", "d", "e", "f", "g", "h", "i", "j", "k", "l", "m",
       "n", "o", "p", "q", "r", "s", "t", "u", "v", "w", "x", "y", "z" >>

UpperLetters ==
    << "A", "B", "C", "D", "E", "F", "G", "H", "I", "J", "K", "L", "M",
       "N", "O", "P", "Q", "R", "S", "T", "U", "V", "W", "X", "Y", "Z" >>

UpperChar(c) ==
    IF \E n \in 1..26 : LowerLetters[n] = c
    THEN UpperLetters[CHOOSE n \in 1..26 : LowerLetters[n] = c]
    ELSE c

LowerChar(c) ==
    IF \E n \in 1..26 : UpperLetters[n] = c
    THEN LowerLetters[CHOOSE n \in 1..26 : UpperLetters[n] = c]
    ELSE c

\* str.upper()
Upper(s) == [n \in 1..Len(s) |-> UpperChar(s[n])]

\* str.lower(), as float() reads "inf" and "nan" case-insensitively
Lower(s) == [n \in 1..Len(s) |-> LowerChar(s[n])]

\* All texts of length at most n over the characters in alphabet.
TextsUpTo(alphabet, n) == UNION { [1..m -> alphabet] : m \in 0..n }

-----------------------------------------------------------------------------
(* Numbers: float(text) and f"{value:.2f}"                                 *)
(*                                                                         *)
(* A float is kept exactly: kind "fin" is the value (-1)^neg * n / 10^k,   *)
(* kind "inf" and "nan" are the IEEE specials float() also accepts, and    *)
(* kind "error" stands for float() raising ValueError.  The texts the      *)
(* model feeds in are short (see NumTexts), so n / 10^k is within the 15   *)
(* significant digits a double carries and the two-decimal rendering of    *)
(* the double is the two-decimal rendering of the decimal.  Exponent       *)
(* notation and digit-group underscores use characters outside the input   *)
(* alphabet and are not part of the grammar below.                         *)

RECURSIVE Pow10(_)
Pow10(k) == IF k = 0 THEN 1 ELSE 10 * Pow10(k - 1)

AllDigits(s) == \A n \in 1..Len(s) : IsDigit(s[n])

RECURSIVE DigitsToNat(_)
DigitsToNat(s) ==
    IF s = << >> THEN 0
    ELSE 10 * DigitsToNat(SubSeq(s, 1, Len(s) - 1)) + DigitVal(s[Len(s)])

RECURSIVE NatToDigits(_)
NatToDigits(n) ==
    IF n < 10 THEN << DigitChar(n) >>
    ELSE NatToDigits(n \div 10) \o << DigitChar(n % 10) >>

Float(kind, neg, n, k) == [kind |-> kind, neg |-> neg, n |-> n, k |-> k]

FloatZero == Float("fin", FALSE, 0, 0)

FloatError == Float("error", FALSE, 0, 0)

\* The unsigned part of a float literal: inf, infinity, nan (any case), or
\* digits with at most one point and at least one digit.
ParseUnsigned(neg, body) ==
    LET low == Lower(body)
        dots == { n \in 1..Len(body) : body[n] = "." }
    IN  IF low \in { << "i", "n", "f" >>,
                     << "i", "n", "f", "i", "n", "i", "t", "y" >> }
        THEN Float("inf", neg, 0, 0)
        ELSE IF low = << "n", "a", "n" >>
        THEN Float("nan", neg, 0, 0)
        ELSE IF Cardinality(dots) > 1 THEN FloatError
        ELSE LET p == IF dots = {} THEN Len(body) + 1
                      ELSE CHOOSE n \in dots : TRUE
                 ip == SubSeq(body, 1, p - 1)
                 fp == SubSeq(body, p + 1, Len(body))
             IN  IF AllDigits(ip) /\ AllDigits(fp) /\ Len(ip) + Len(fp) > 0
                 THEN Float("fin", neg, DigitsToNat(ip \o fp), Len(fp))
                 ELSE FloatError

\* float(text): surrounding whitespace is ignored, one sign is allowed.
ParseFloat(text) ==
    LET t == Strip(text)
    IN  IF t = << >> THEN FloatError
        ELSE IF Head(t) \in {"+", "-"}
             THEN ParseUnsigned(Head(t) = "-", Tail(t))
             ELSE ParseUnsigned(FALSE, t)

\* try: float(qty.replace(',', '')) if qty else 0.0 / except Exception: 0.0
ToFloatOrZero(text) ==
    IF text = Empty THEN FloatZero
    ELSE LET v == ParseFloat(RemoveCommas(text))
         IN  IF v.kind = "error" THEN FloatZero ELSE v

\* The value in hundredths, rounded as "%.2f" rounds the double: to nearest,
\* and a double exactly half-way (a dyadic fraction such as .125) to even.
\* A decimal half-way value that is not dyadic (.015) goes to the side its
\* double lies on, which this exact arithmetic does not tell; such a text
\* ends in the digit 5 after two or more fraction digits, and NumTexts has
\* none.
Hundredths(v) ==
    IF v.k <= 2 THEN v.n * Pow10(2 - v.k)
    ELSE LET d == Pow10(v.k - 2)
             q == v.n \div d
             r == v.n % d
         IN  IF 2 * r > d THEN q + 1
             ELSE IF 2 * r < d THEN q
             ELSE IF q % 2 = 0 THEN q ELSE q + 1

\* f"{v:.2f}"
Format2f(v) ==
    LET sign == IF v.neg THEN << "-" >> ELSE << >>
    IN  IF v.kind = "nan" THEN << "n", "a", "n" >>
        ELSE IF v.kind = "inf" THEN sign \o << "i", "n", "f" >>
        ELSE LET h == Hundredths(v)
             IN  sign \o NatToDigits(h \div 100) \o << "." >>
                      \o << DigitChar((h % 100) \div 10), DigitChar(h % 10) >>

\* The text convert_rows writes for a quantity or price cell.
FormatNumber(text) == Format2f(ToFloatOrZero(text))

-----------------------------------------------------------------------------
(* Rows, column aliases and the salesperson directory                      *)

\* TEMPLATE_HEADERS
TEMPLATE_HEADERS ==
    << "name", "partner_id", "user_id", "Cust #", "Salesperson",
       "activity_ids", "order_line/name", "order_line/product_uom_qty",
       "order_line/price_unit", "order_line/product_id",
       "order_line/product_template_id/name",
       "order_line/product_template_id" >>

doc_keys == << "Doc #", "DOC #", "Doc#", "DOC#", "Doc No", "DOC NO", "Doc" >>

customer_keys ==
    << "Customer Name", "CUSTOMER NAME", "Customer", "CLIENTE", "Cust #" >>

sku_keys == << "SKU", "Sku", "sku", "Item", "ITEM" >>

\* The last alias is the source's mis-decoded spelling of DESCRIPCION with an
\* accent; its two non-ASCII characters are written "?" here.
desc_keys ==
    << "Description", "DESCRIPTION", "description", "DESCRIPCION",
       "DESCRIPCI?N" >>

qty_keys == << "Qty", "QTY", "Quantity" >>

price_keys == << "Price", "PRICE", "Unit Price", "UnitPrice" >>

salesperson_keys ==
    << "Salesperson", "SALESPERSON", "Sales Person", "Sales_Person",
       "Salesperson" >>

cust_keys == << "Cust #" >>

\* The literals the code falls back to.
DefaultUser == << "D", "e", "f", "a", "u", "l", "t", " ", "U", "s", "e", "r" >>

DefaultSalesperson ==
    << "J", "a", "b", "e", "s", " ", "O", "m", "a", "r", " ",
       "D", "e", " ", "L", "a", " ", "C", "r", "u", "z" >>

Range(seq) == { seq[n] : n \in 1..Len(seq) }

\* None where a column name is expected (no alias matched).
NoKey == "None"

\* A row is a dict as csv.DictReader builds it: keys is the key order
\* (the file's header), val the cell under each key (None for a field the
\* data line does not have).
MkRow(keys, val) == [keys |-> keys, val |-> val]

\* convert_rows.get_val: the stripped text under the first key of `keys`
\* that the row has with a value other than None; '' when there is none.
RECURSIVE get_val(_, _)
get_val(row, keys) ==
    IF keys = << >> THEN Empty
    ELSE IF Head(keys) \in Range(row.keys) /\ row.val[Head(keys)] # None
         THEN Strip(row.val[Head(keys)])
         ELSE get_val(row, Tail(keys))

\* next((k for k in header if k in aliases), None)
RECURSIVE FirstKeyIn(_, _)
FirstKeyIn(header, aliases) ==
    IF header = << >> THEN NoKey
    ELSE IF Head(header) \in Range(aliases) THEN Head(header)
         ELSE FirstKeyIn(Tail(header), aliases)

\* The directory is a set of <<code, name>> pairs with one name per code.
\* NoMap is the global before the first load (None).
NoMap == { << None, None >> }

\* dict.get(code): the name under code, None when there is no such key.
MapGet(map, code) ==
    IF \E e \in map : e[1] = code
    THEN (CHOOSE e \in map : e[1] = code)[2]
    ELSE None

\* mapping[code] = name
MapPut(map, code, name) ==
    { e \in map : e[1] # code } \cup { << code, name >> }

\* x or '' for a cell that may be None
OrEmpty(cell) == IF cell = None THEN Empty ELSE cell

\* _load_salesperson_map: an absent file gives the empty mapping; each file
\* row with a non-empty code and name is entered under the stripped,
\* upper-cased code, a later row replacing an earlier one.
RECURSIVE LoadRows(_, _)
LoadRows(rows, mapping) ==
    IF rows = << >> THEN mapping
    ELSE LET code == Upper(Strip(OrEmpty(Head(rows).Code)))
             name == Strip(OrEmpty(Head(rows).Name))
         IN  LoadRows(Tail(rows),
                      IF code # Empty /\ name # Empty
                      THEN MapPut(mapping, code, name)
                      ELSE mapping)

load_salesperson_map(file) ==
    IF ~file.exists THEN {} ELSE LoadRows(file.rows, {})

-----------------------------------------------------------------------------
(* convert_rows: the values computed for one row                           *)

\* Python truthiness of a text or None.
Truthy(x) == x # Empty /\ x # None

\* a or b
Or(a, b) == IF Truthy(a) THEN a ELSE b

\* get_val(row, [key]) if key else ''
ValueAt(row, key) == IF key # NoKey THEN get_val(row, << key >>) ELSE Empty

\* Mutant of HasSku: the SKU cell is tested without trimming.
HasSku_Untrimmed(row) ==
    "SKU" \in Range(row.keys) /\ row.val["SKU"] \notin { None, Empty }

\* sku = get_val(row, sku_keys); "if not sku: continue" skips the row.
HasSku(row) == get_val(row, sku_keys) # Empty

\* Mutant of IsNewGroup: the "0" placeholder opens a group like any number.
IsNewGroup_ZeroOpens(doc_number, cur) ==
    doc_number # Empty /\ doc_number # cur

\* The grouping decision:
\* doc_number and doc_number != current_doc and doc_number != '0'
IsNewGroup(doc_number, cur) ==
    doc_number # Empty /\ doc_number # cur /\ doc_number # << "0" >>

\* Mutant of OrderName: only the surrounding whitespace is gone (the number
\* is used as get_val returned it).
OrderName_KeepsInnerSpace(doc_number) == << "O" >> \o doc_number

\* f"O{re.sub(r'\s+', '', doc_number)}"
OrderName(doc_number) == << "O" >> \o RemoveWhitespace(doc_number)

\* Mutant of SalespersonCode: the code is looked up as written.
SalespersonCode_AsWritten(row) == get_val(row, salesperson_keys)

\* salesperson_code = get_val(row, salesperson_keys).upper()
SalespersonCode(row) == Upper(get_val(row, salesperson_keys))

\* salesperson_name = sp_map.get(salesperson_code) if salesperson_code else ''
SalespersonName(map, code) == IF code # Empty THEN MapGet(map, code) ELSE Empty

\* Mutant of CustColumn: the customer name is left out of the fallback chain.
CustColumn_SkipsName(cust_value, customer_name) == Or(cust_value, DefaultUser)

\* row_out['Cust #'] = cust_value or customer_name or 'Default User'
CustColumn(cust_value, customer_name) ==
    Or(Or(cust_value, customer_name), DefaultUser)

\* The initial row_out: every header field and activity_ids are ''.
BlankHeader ==
    [f \in { "name", "partner_id", "user_id", "Cust #", "Salesperson",
             "activity_ids" } |-> Empty]

\* The header fields written on the first row of a group (doc mode).
DocHeader(row, dk, ck, cuk, map) ==
    LET doc_number == get_val(row, << dk >>)
        customer_name == ValueAt(row, ck)
        salesperson_name == SalespersonName(map, SalespersonCode(row))
        cust_value == ValueAt(row, cuk)
    IN  [BlankHeader EXCEPT
            !["name"] = OrderName(doc_number),
            !["partner_id"] = Or(customer_name, DefaultUser),
            !["user_id"] = Or(salesperson_name, DefaultSalesperson),
            !["Cust #"] = CustColumn(cust_value, customer_name),
            !["Salesperson"] = Or(salesperson_name, DefaultSalesperson)]

\* The header fields written on the first emitted row (single-order mode).
SingleHeader(qn) ==
    [BlankHeader EXCEPT
        !["name"] = qn,
        !["partner_id"] = DefaultUser,
        !["user_id"] = DefaultSalesperson,
        !["Cust #"] = DefaultUser,
        !["Salesperson"] = DefaultSalesperson]

\* Mutant of SingleRowHeader: first is never cleared, every row gets a header.
SingleRowHeader_Always(is_first, qn) == SingleHeader(qn)

\* The header part of a single-order row: "if first:" fills it, else blank.
SingleRowHeader(is_first, qn) ==
    IF is_first THEN SingleHeader(qn) ELSE BlankHeader

\* Mutant of ProductTemplateId: no blank between the bracket and the text.
ProductTemplateId_NoBlank(sku, description) ==
    << "[" >> \o sku \o << "]" >> \o description

\* f"[{sku}] {description}"
ProductTemplateId(sku, description) ==
    << "[" >> \o sku \o << "]", " " >> \o description

\* row_out.update({...}): the order-line fields every emitted row gets.
LineFields(row) ==
    LET sku == get_val(row, sku_keys)
        description == get_val(row, desc_keys)
        qty == get_val(row, qty_keys)
        price == get_val(row, price_keys)
        ptid == ProductTemplateId(sku, description)
    IN  ("order_line/name" :> ptid)
        @@ ("order_line/product_uom_qty" :> FormatNumber(qty))
        @@ ("order_line/price_unit" :> FormatNumber(price))
        @@ ("order_line/product_id" :> ptid)
        @@ ("order_line/product_template_id/name" :> description)
        @@ ("order_line/product_template_id" :> ptid)

-----------------------------------------------------------------------------
(* convert_rows as a state machine: one step per statement group, one      *)
(* step per loop iteration                                                 *)

\* header_keys and the three resolved columns (lines 88-100).
ResolveColumns ==
    /\ pc = "resolve"
    /\ header_keys' = IF epicor_rows # << >> THEN epicor_rows[1].keys ELSE << >>
    /\ doc_key' = FirstKeyIn(header_keys', doc_keys)
    /\ customer_key' = FirstKeyIn(header_keys', customer_keys)
    /\ cust_key' = FirstKeyIn(header_keys', cust_keys)
    /\ pc' = "get_map"
    /\ UNCHANGED << sp_file, SALESPERSON_MAP, epicor_rows, sp_map, idx,
                    current_doc, first, quotation_number, template_rows >>
    /\ UNCHANGED << call_vars, other_vars >>

\* Mutant of NeedsLoad: an empty cached mapping counts as not loaded
\* ("if not _SALESPERSON_MAP").
NeedsLoad_WhenFalsy(map) == map = NoMap \/ map = {}

\* _get_salesperson_map: "if _SALESPERSON_MAP is None"
NeedsLoad(map) == map = NoMap

\* Mutant of GetSalespersonMap: template_rows is not rebound to a new list,
\* so the rows of the previous call stay in it.
GetSalespersonMap_KeepsRows ==
    /\ pc = "get_map"
    /\ IF NeedsLoad(SALESPERSON_MAP)
       THEN /\ SALESPERSON_MAP' = load_salesperson_map(sp_file)
            /\ loads' = loads + 1
            /\ map_id' = loads + 1
       ELSE UNCHANGED << SALESPERSON_MAP, loads, map_id >>
    /\ sp_map' = SALESPERSON_MAP'
    /\ template_rows' = template_rows
    /\ idx' = 1
    /\ IF doc_key # NoKey
       THEN /\ pc' = "doc_loop"
            /\ current_doc' = None
       ELSE /\ pc' = "single_init"
            /\ UNCHANGED current_doc
    /\ UNCHANGED << sp_file, epicor_rows, header_keys, doc_key, customer_key,
                    cust_key, first, quotation_number >>
    /\ UNCHANGED << calls, prev_input, prev_rows, other_vars >>

\* sp_map = _get_salesperson_map(); template_rows = []; the mode branch.
GetSalespersonMap ==
    /\ pc = "get_map"
    /\ IF NeedsLoad(SALESPERSON_MAP)
       THEN /\ SALESPERSON_MAP' = load_salesperson_map(sp_file)
            /\ loads' = loads + 1
            /\ map_id' = loads + 1
       ELSE UNCHANGED << SALESPERSON_MAP, loads, map_id >>
    /\ sp_map' = SALESPERSON_MAP'
    /\ template_rows' = << >>
    /\ idx' = 1
    /\ IF doc_key # NoKey
       THEN /\ pc' = "doc_loop"
            /\ current_doc' = None
       ELSE /\ pc' = "single_init"
            /\ UNCHANGED current_doc
    /\ UNCHANGED << sp_file, epicor_rows, header_keys, doc_key, customer_key,
                    cust_key, first, quotation_number >>
    /\ UNCHANGED << calls, prev_input, prev_rows, other_vars >>

\* Mutant of DocSkipRow: the grouping decision is taken before the SKU test,
\* so a skipped row with a new document number moves current_doc.
DocSkipRow_TracksDoc ==
    /\ pc = "doc_loop"
    /\ idx <= Len(epicor_rows)
    /\ ~HasSku(epicor_rows[idx])
    /\ idx' = idx + 1
    /\ current_doc' =
          IF IsNewGroup(get_val(epicor_rows[idx], << doc_key >>), current_doc)
          THEN get_val(epicor_rows[idx], << doc_key >>)
          ELSE current_doc
    /\ UNCHANGED << sp_file, SALESPERSON_MAP, epicor_rows, header_keys,
                    doc_key, customer_key, cust_key, sp_map, pc,
                    first, quotation_number, template_rows >>
    /\ UNCHANGED << call_vars, other_vars >>

\* Document mode, a row without SKU: continue.
DocSkipRow ==
    /\ pc = "doc_loop"
    /\ idx <= Len(epicor_rows)
    /\ ~HasSku(epicor_rows[idx])
    /\ idx' = idx + 1
    /\ UNCHANGED << sp_file, SALESPERSON_MAP, epicor_rows, header_keys,
                    doc_key, customer_key, cust_key, sp_map, pc, current_doc,
                    first, quotation_number, template_rows >>
    /\ UNCHANGED << call_vars, other_vars >>

\* Document mode, a row with SKU: the grouping decision and the append.
DocEmitRow ==
    /\ pc = "doc_loop"
    /\ idx <= Len(epicor_rows)
    /\ LET row == epicor_rows[idx]
           doc_number == get_val(row, << doc_key >>)
       IN  /\ HasSku(row)
           /\ IF IsNewGroup(doc_number, current_doc)
              THEN /\ current_doc' = doc_number
                   /\ template_rows' = Append(template_rows,
                          DocHeader(row, doc_key, customer_key, cust_key, sp_map)
                              @@ LineFields(row))
              ELSE /\ UNCHANGED current_doc
                   /\ template_rows' = Append(template_rows,
                          BlankHeader @@ LineFields(row))
    /\ idx' = idx + 1
    /\ UNCHANGED << sp_file, SALESPERSON_MAP, epicor_rows, header_keys,
                    doc_key, customer_key, cust_key, sp_map, pc, first,
                    quotation_number >>
    /\ UNCHANGED << call_vars, other_vars >>

\* Document mode: the loop is exhausted, return template_rows.
DocReturn ==
    /\ pc = "doc_loop"
    /\ idx > Len(epicor_rows)
    /\ pc' = "returned"
    /\ UNCHANGED << sp_file, SALESPERSON_MAP, epicor_rows, header_keys,
                    doc_key, customer_key, cust_key, sp_map, idx, current_doc,
                    first, quotation_number, template_rows >>
    /\ UNCHANGED << call_vars, other_vars >>


\* datetime.now().strftime('%m%d%H%M'): two instants a minute apart.
Clock ==
    { << "1", "1", "0", "3", "1", "9", "0", "8" >>,
      << "1", "1", "0", "3", "1", "9", "0", "9" >> }

\* Single-order fallback: quotation_number from the clock, first = True.
SingleInit ==
    /\ pc = "single_init"
    /\ \E now \in Clock : quotation_number' = << "Q", "O" >> \o now
    /\ first' = TRUE
    /\ pc' = "single_loop"
    /\ UNCHANGED << sp_file, SALESPERSON_MAP, epicor_rows, header_keys,
                    doc_key, customer_key, cust_key, sp_map, idx, current_doc,
                    template_rows >>
    /\ UNCHANGED << call_vars, other_vars >>

\* Single-order fallback, a row without SKU: continue.
SingleSkipRow ==
    /\ pc = "single_loop"
    /\ idx <= Len(epicor_rows)
    /\ ~HasSku(epicor_rows[idx])
    /\ idx' = idx + 1
    /\ UNCHANGED << sp_file, SALESPERSON_MAP, epicor_rows, header_keys,
                    doc_key, customer_key, cust_key, sp_map, pc, current_doc,
                    first, quotation_number, template_rows >>
    /\ UNCHANGED << call_vars, other_vars >>

\* Single-order fallback, a row with SKU: header fields if first, the append.
SingleEmitRow ==
    /\ pc = "single_loop"
    /\ idx <= Len(epicor_rows)
    /\ LET row == epicor_rows[idx]
       IN  /\ HasSku(row)
           /\ template_rows' = Append(template_rows,
                  SingleRowHeader(first, quotation_number) @@ LineFields(row))
    /\ first' = FALSE
    /\ idx' = idx + 1
    /\ UNCHANGED << sp_file, SALESPERSON_MAP, epicor_rows, header_keys,
                    doc_key, customer_key, cust_key, sp_map, pc, current_doc,
                    quotation_number >>
    /\ UNCHANGED << call_vars, other_vars >>

\* Single-order fallback: the loop is exhausted, return template_rows.
SingleReturn ==
    /\ pc = "single_loop"
    /\ idx > Len(epicor_rows)
    /\ pc' = "returned"
    /\ UNCHANGED << sp_file, SALESPERSON_MAP, epicor_rows, header_keys,
                    doc_key, customer_key, cust_key, sp_map, idx, current_doc,
                    first, quotation_number, template_rows >>
    /\ UNCHANGED << call_vars, other_vars >>

-----------------------------------------------------------------------------
(* The inputs                                                              *)

\* Longest input file of the grouping and single-order families.
MaxRows == 3

\* Longest input file of the document-run family (1,1,2,2,0,3 has six rows).
MaxRunRows == 6

\* Longest input file of the header-field families.
MaxHeaderRows == 2

\* Longest quantity text enumerated exhaustively.
MaxNumLen == 3

T_Empty == << >>
T_Blank == << " " >>
T_0 == << "0" >>
T_1 == << "1" >>
T_2 == << "2" >>
T_3 == << "3" >>
T_1sp == << " ", "1" >>
T_1_0 == << "1", " ", "0" >>
T_10 == << "1", "0" >>
T_1001 == << "1", "0", "0", "1" >>
T_X1 == << "X", "1" >>
T_X2 == << "X", "2" >>
T_Acme == << "A", "c", "m", "e" >>
T_C7 == << "C", "7" >>
T_jd == << "j", "d" >>
T_JDsp == << " ", "J", "D", " " >>
T_zz == << "z", "z" >>
T_JohnDoe == << "J", "o", "h", "n", " ", "D", "o", "e" >>
T_Widget == << "W", "i", "d", "g", "e", "t" >>
T_WidgetSp == << " ", "W", "i", "d", "g", "e", "t", " " >>
T_Gadget == << "G", "a", "d", "g", "e", "t" >>
T_5 == << "5" >>
T_1250 == << "1", ",", "2", "5", "0" >>
T_19_5 == << "1", "9", ".", "5" >>
T_abc == << "a", "b", "c" >>

\* The characters quantity texts are built from: digits, the thousands
\* comma, the point, a sign, a blank, and the letters of "nan" and "inf".
NumAlphabet == { "1", "2", ",", ".", "-", " ", "a", "n", "i", "f" }

\* Quantity texts: every text over NumAlphabet up to MaxNumLen characters,
\* and the texts the specification names.
NumTexts ==
    TextsUpTo(NumAlphabet, MaxNumLen) \cup { T_1250, T_19_5, T_abc, T_10 }

\* All rows over the header `keys` whose cell under key k is in cells[k].
RECURSIVE RowVals(_, _)
RowVals(keys, cells) ==
    IF keys = << >> THEN { << >> }
    ELSE { (Head(keys) :> c) @@ rest :
              c \in cells[Head(keys)], rest \in RowVals(Tail(keys), cells) }

RowsOf(keys, cells) == { MkRow(keys, v) : v \in RowVals(keys, cells) }

\* All files of at most n rows drawn from rows.
FilesUpTo(rows, n) == UNION { [1..m -> rows] : m \in 0..n }

\* Grouping: document numbers (empty, "0", new, repeated, padded) against
\* SKU cells (present, empty).
GroupingFiles ==
    FilesUpTo(RowsOf(<< "Doc #", "SKU" >>,
                     ("Doc #" :> { T_Empty, T_0, T_1, T_2, T_1sp })
                     @@ ("SKU" :> { T_X1, T_Empty })),
              MaxRows)

\* Runs of document numbers on SKU-bearing rows, long enough for 1,1,2,2,0,3.
RunFiles ==
    FilesUpTo(RowsOf(<< "Doc #", "SKU" >>,
                     ("Doc #" :> { T_0, T_1, T_2, T_3 })
                     @@ ("SKU" :> { T_X1 })),
              MaxRunRows)

\* Header fields with a customer-name column and a customer-code column.
CustomerFiles ==
    FilesUpTo(RowsOf(<< "Doc #", "Customer Name", "Cust #", "SKU" >>,
                     ("Doc #" :> { T_1, T_1_0 })
                     @@ ("Customer Name" :> { T_Acme, T_Empty })
                     @@ ("Cust #" :> { T_C7, T_Empty })
                     @@ ("SKU" :> { T_X1 })),
              MaxHeaderRows)

\* Header fields with a salesperson column: a code the directory file
\* lists in lower case, no code, and a code it has no name for.
SalespersonCodeFiles ==
    FilesUpTo(RowsOf(<< "Doc #", "Salesperson", "SKU" >>,
                     ("Doc #" :> { T_1, T_2 })
                     @@ ("Salesperson" :> { T_jd, T_Empty, T_zz })
                     @@ ("SKU" :> { T_X1 })),
              MaxHeaderRows)

\* Header fields when the only customer column is the customer code.
CustCodeFiles ==
    FilesUpTo(RowsOf(<< "Cust #", "Doc #", "Salesperson", "SKU" >>,
                     ("Cust #" :> { T_C7, T_Empty })
                     @@ ("Doc #" :> { T_1, T_2 })
                     @@ ("Salesperson" :> { T_JDsp, None })
                     @@ ("SKU" :> { T_X1 })),
              MaxHeaderRows)

\* Order-line fields: one row, every quantity text.
LineFiles ==
    FilesUpTo(RowsOf(<< "Doc #", "SKU", "Description", "Qty", "Price" >>,
                     ("Doc #" :> { T_1 })
                     @@ ("SKU" :> { T_X1 })
                     @@ ("Description" :> { T_WidgetSp })
                     @@ ("Qty" :> NumTexts)
                     @@ ("Price" :> { T_19_5, T_Empty })),
              1)

\* No document-number column: the single-order fallback.
SingleFiles ==
    FilesUpTo(RowsOf(<< "SKU", "Description", "Qty", "Salesperson" >>,
                     ("SKU" :> { T_X1, T_Empty, T_Blank })
                     @@ ("Description" :> { T_WidgetSp, T_Empty })
                     @@ ("Qty" :> { T_1250 })
                     @@ ("Salesperson" :> { T_jd })),
              MaxRows)

\* The two-row scenario of the specification: the second data line is short.
ScenarioKeys ==
    << "Doc#", "Customer Name", "SKU", "Description", "Qty", "Price" >>

ScenarioFile ==
    << MkRow(ScenarioKeys,
             ("Doc#" :> T_1001) @@ ("Customer Name" :> T_Acme)
             @@ ("SKU" :> T_X1) @@ ("Description" :> T_Widget)
             @@ ("Qty" :> T_2) @@ ("Price" :> T_10)),
       MkRow(ScenarioKeys,
             ("Doc#" :> T_1001) @@ ("Customer Name" :> T_Empty)
             @@ ("SKU" :> T_X2) @@ ("Description" :> T_Gadget)
             @@ ("Qty" :> T_1) @@ ("Price" :> T_5)) >>

InputFiles ==
    GroupingFiles \cup RunFiles \cup CustomerFiles \cup SalespersonCodeFiles
        \cup CustCodeFiles \cup LineFiles \cup SingleFiles \cup { ScenarioFile }

\* "Sales Person List.csv": absent, or present with Code/Name rows.
NoFile == [exists |-> FALSE, rows |-> << >>]

SpFile(rows) == [exists |-> TRUE, rows |-> rows]

SalespersonFiles ==
    { NoFile,
      SpFile(<< [Code |-> T_jd, Name |-> T_JohnDoe],
                [Code |-> T_zz, Name |-> T_Empty] >>) }

\* The directory files an input file is run with: the directory is read only
\* through a row's salesperson code, so a file without a salesperson column
\* is run with the directory file absent.
DirectoriesFor(file) ==
    IF file # << >> /\ Range(file[1].keys) \cap Range(salesperson_keys) # {}
    THEN SalespersonFiles
    ELSE { NoFile }

-----------------------------------------------------------------------------
(* The specification                                                       *)

\* A process in which convert_rows has not been called before.
FreshProcess ==
    /\ SALESPERSON_MAP = NoMap
    /\ calls = 1
    /\ loads = 0
    /\ map_id = 0
    /\ prev_input = << >>
    /\ prev_rows = << >>

\* The locals of convert_rows before its first statement.
ConvertLocals ==
    /\ header_keys = << >>
    /\ doc_key = NoKey
    /\ customer_key = NoKey
    /\ cust_key = NoKey
    /\ sp_map = NoMap
    /\ idx = 1
    /\ current_doc = None
    /\ first = TRUE
    /\ quotation_number = Empty
    /\ template_rows = << >>

\* convert_rows has just been called.
ConvertEntry == ConvertLocals /\ pc = "resolve"

\* No conversion is under way.
ConvertIdle ==
    /\ epicor_rows = << >>
    /\ sp_file = NoFile
    /\ FreshProcess
    /\ ConvertLocals
    /\ pc = "idle"

\* No file is being parsed.
ParseIdle ==
    /\ file_bytes = << >>
    /\ ppc = "idle"
    /\ delimiter = None
    /\ parsed_rows = << >>

\* No other thread is inside _get_salesperson_map.
ThreadsIdle ==
    /\ tpc = << >>
    /\ tloaded = << >>
    /\ tret = << >>

\* No folder is being processed.
BatchIdle ==
    /\ tool = "none"
    /\ fate = << >>
    /\ queue = << >>
    /\ bpc = "idle"
    /\ cur_file = 0
    /\ writes = << >>
    /\ raised = {}
    /\ processed = {}
    /\ moved = {}

\* No watcher is running.
WatchIdle ==
    /\ folder = {}
    /\ arrived = {}
    /\ processed_files = {}
    /\ wpc = "idle"
    /\ cpc = "off"
    /\ csv_files = {}
    /\ converted = {}
    /\ returncode = 0
    /\ seen = {}

\* file_watcher.py is not running.
FileWatcherIdle ==
    /\ fpc = "idle"
    /\ attrs = << >>
    /\ requirements = FALSE
    /\ current_files = {}
    /\ arrivals = 0
    /\ untriggered = {}

\* The HTTP application serves no request.
HttpIdle ==
    /\ requests = << >>
    /\ temp_files = << >>

ShellsIdle == FileWatcherIdle /\ HttpIdle

Init ==
    /\ epicor_rows \in InputFiles
    /\ sp_file \in DirectoriesFor(epicor_rows)
    /\ FreshProcess
    /\ ConvertEntry
    /\ ParseIdle
    /\ ThreadsIdle
    /\ BatchIdle
    /\ WatchIdle
    /\ ShellsIdle

Next ==
    \/ ResolveColumns
    \/ GetSalespersonMap
    \/ DocSkipRow
    \/ DocEmitRow
    \/ DocReturn
    \/ SingleInit
    \/ SingleSkipRow
    \/ SingleEmitRow
    \/ SingleReturn

Spec == Init /\ [][Next]_vars

-----------------------------------------------------------------------------
(* Vocabulary of the properties                                            *)

HeaderFields == { "name", "partner_id", "user_id", "Cust #", "Salesperson" }

\* The row carries every header field.
HasHeader(r) == \A f \in HeaderFields : r[f] # Empty

\* The row carries no header field, and no activity_ids.
NoHeader(r) == \A f \in HeaderFields \cup { "activity_ids" } : r[f] = Empty

\* The cell under column k, trimmed; '' when the row has no value there.
TrimmedCell(row, k) ==
    IF k \in Range(row.keys) /\ row.val[k] # None
    THEN Strip(row.val[k])
    ELSE Empty

\* The cell under column k as read from the file; None when the row has no
\* such column.
RawCell(row, k) == IF k \in Range(row.keys) THEN row.val[k] ELSE None

\* The conversion ran (or runs) in document-number mode.
DocMode == doc_key # NoKey /\ pc \in { "doc_loop", "returned" }

\* The conversion ran (or runs) in single-order mode.
SingleMode == doc_key = NoKey /\ pc \in { "single_loop", "returned" }

\* The input rows with a SKU, as indices in input order.
SkuIndices == { i \in 1..Len(epicor_rows) : TrimmedCell(epicor_rows[i], "SKU") # Empty }

\* The index of the input row behind the j-th row with a SKU.
SourceIndex(j) ==
    CHOOSE i \in SkuIndices : Cardinality({ k \in SkuIndices : k <= i }) = j

\* The trimmed document numbers of the whole input, row by row.
InputDocs == [i \in 1..Len(epicor_rows) |-> TrimmedCell(epicor_rows[i], doc_key)]

\* A step that appends a row to the output.
Emits == Len(template_rows') = Len(template_rows) + 1

Last(seq) == seq[Len(seq)]

HeaderCount == Cardinality({ j \in 1..Len(template_rows) : HasHeader(template_rows[j]) })

-----------------------------------------------------------------------------
(* C1 *)

C1_Step ==
    (pc = "doc_loop" /\ Emits) =>
        LET d == TrimmedCell(epicor_rows[idx], doc_key)
            r == Last(template_rows')
        IN  /\ HasHeader(r) <=> (d # Empty /\ d # T_0 /\ d # current_doc)
            /\ HasHeader(r) \/ NoHeader(r)

C1_RunOfSix == << T_1, T_1, T_2, T_2, T_0, T_3 >>

C1_Scenario ==
    (DocMode /\ InputDocs = C1_RunOfSix /\ SkuIndices = 1..6) =>
        /\ (idx = 6 => current_doc = T_2)
        /\ (pc = "returned" =>
                /\ HeaderCount = 3
                /\ NoHeader(template_rows[5]))

\* C1: in document-number mode an emitted row carries the header fields
\* (all of them non-empty) exactly when its trimmed document number is
\* non-empty, is not "0" and differs from current_doc at that point; every
\* other emitted row has all header fields and activity_ids empty.  For
\* SKU-bearing rows numbered 1,1,2,2,0,3 exactly three rows carry header
\* fields, and the "0" row carries none and leaves current_doc alone.
C1_HeaderIffNewGroup == [][C1_Step]_vars /\ []C1_Scenario

\* C1 witness: the six-row run 1,1,2,2,0,3 has been converted.
C1_Witness ==
    /\ DocMode /\ pc = "returned"
    /\ InputDocs = C1_RunOfSix
    /\ SkuIndices = 1..6
    /\ HeaderCount = 3

-----------------------------------------------------------------------------
(* C2 *)

\* C2: in both modes the returned output has exactly one row per input row
\* whose trimmed SKU is non-empty, in input order (the j-th output row
\* carries the SKU and description of the j-th such input row), and so
\* never more rows than the input has rows with a SKU.
C2_OneRowPerSku ==
    pc = "returned" =>
        /\ Len(template_rows) = Cardinality(SkuIndices)
        /\ \A j \in 1..Len(template_rows) :
              LET row == epicor_rows[SourceIndex(j)]
              IN  /\ template_rows[j]["order_line/name"] =
                        << "[" >> \o TrimmedCell(row, "SKU") \o << "]", " " >>
                            \o TrimmedCell(row, "Description")
                  /\ template_rows[j]["order_line/product_template_id/name"] =
                        TrimmedCell(row, "Description")

\* C2 witness: a returned conversion that skipped a row between two emitted
\* rows, in single-order mode.
C2_Witness ==
    /\ pc = "returned" /\ SingleMode
    /\ Len(epicor_rows) = 3
    /\ SkuIndices = { 1, 3 }
    /\ Len(template_rows) = 2
    /\ TrimmedCell(epicor_rows[1], "Description")
          # TrimmedCell(epicor_rows[3], "Description")

-----------------------------------------------------------------------------
(* C3 *)

\* A document number that can open a group.
ValidDoc(d) == d # Empty /\ d # T_0

\* The position in the output of the row emitted for input row i.
OutIndex(i) == Cardinality({ k \in SkuIndices : k <= i })

\* Rows k < i lie in one run of a document number: they carry the same
\* number and every row between them carries that number or a placeholder
\* (empty or "0"), which the current group absorbs.
SameRun(k, i) ==
    /\ InputDocs[k] = InputDocs[i]
    /\ \A m \in k..i : InputDocs[m] \in { InputDocs[i], Empty, T_0 }

\* Row i is the first row with a SKU in its run.
FirstSkuOfRun(i) ==
    /\ i \in SkuIndices
    /\ ~ \E k \in SkuIndices : k < i /\ SameRun(k, i)

\* Row i resumes the group current_doc already holds: an earlier row with a
\* SKU has the same number, and no row between them that has a SKU carries
\* another number that opens a group (the rows of the runs in between were
\* all skipped for an empty SKU).
ResumesGroup(i) ==
    \E k \in SkuIndices :
        /\ k < i
        /\ InputDocs[k] = InputDocs[i]
        /\ \A m \in SkuIndices : (k < m /\ m < i) => ~ValidDoc(InputDocs[m])

C3_Frame ==
    (current_doc' # current_doc) =>
        /\ pc = "doc_loop"
        /\ idx <= Len(epicor_rows)
        /\ TrimmedCell(epicor_rows[idx], "SKU") # Empty
        /\ ValidDoc(TrimmedCell(epicor_rows[idx], doc_key))
        /\ TrimmedCell(epicor_rows[idx], doc_key) # current_doc
        /\ current_doc' = TrimmedCell(epicor_rows[idx], doc_key)

\* C3 as stated, its consequence: every run of a document number (non-empty,
\* not "0") with a SKU-bearing row has the header fields on the first
\* SKU-bearing row of the run.
C3_EveryRunGetsHeader ==
    (DocMode /\ pc = "returned") =>
        \A i \in 1..Len(epicor_rows) :
            (FirstSkuOfRun(i) /\ ValidDoc(InputDocs[i])) =>
                HasHeader(template_rows[OutIndex(i)])

C3_RunGetsHeaderUnlessResumed ==
    (DocMode /\ pc = "returned") =>
        \A i \in 1..Len(epicor_rows) :
            (FirstSkuOfRun(i) /\ ValidDoc(InputDocs[i])) =>
                (HasHeader(template_rows[OutIndex(i)]) <=> ~ResumesGroup(i))

\* C3 (amended): current_doc changes only while a row with a SKU and a
\* document number that is non-empty, not "0" and different from current_doc
\* is processed, and then becomes that number; a row skipped for an empty
\* SKU leaves it unchanged.  The first SKU-bearing row of a run of a number
\* carries the header fields unless the run resumes the group current_doc
\* already holds.
C3_CurrentDocFrame == [][C3_Frame]_vars /\ []C3_RunGetsHeaderUnlessResumed

\* C3 witness: a row with a new number and no SKU was skipped, and the next
\* row of that run, which has a SKU, carries the header.
C3_Witness ==
    /\ DocMode /\ pc = "returned"
    /\ Len(epicor_rows) = 3
    /\ InputDocs = << T_1, T_2, T_2 >>
    /\ SkuIndices = { 1, 3 }
    /\ HasHeader(template_rows[2])
    /\ template_rows[2]["name"] = << "O", "2" >>

-----------------------------------------------------------------------------
(* C4 *)

\* C4: whenever the returned output is non-empty its first row carries the
\* header fields, so every row without header fields follows a header row.
C4_FirstRowHasHeader ==
    (pc = "returned" /\ template_rows # << >>) => HasHeader(template_rows[1])

-----------------------------------------------------------------------------
(* C5 *)

NotSpace(c) == ~IsSpace(c)

\* C5: on every header row of document-number mode, name is "O" followed by
\* the document number without any whitespace, and partner_id is the trimmed
\* value of the resolved customer column when there is one and the value is
\* non-empty, else "Default User".
C5_NameAndPartner ==
    DocMode =>
        \A j \in 1..Len(template_rows) :
            HasHeader(template_rows[j]) =>
                LET row == epicor_rows[SourceIndex(j)]
                    customer == TrimmedCell(row, customer_key)
                IN  /\ template_rows[j]["name"] =
                          << "O" >> \o SelectSeq(RawCell(row, doc_key), NotSpace)
                    /\ template_rows[j]["partner_id"] =
                          IF customer_key # NoKey /\ customer # Empty
                          THEN customer
                          ELSE DefaultUser

\* C5 witness: a header row for the number "1 0" (inner blank) with a
\* customer name, and one that fell back to "Default User".
C5_Witness ==
    /\ DocMode /\ pc = "returned"
    /\ Len(template_rows) = 2
    /\ template_rows[1]["name"] = << "O", "1", "0" >>
    /\ RawCell(epicor_rows[1], doc_key) = T_1_0
    /\ template_rows[1]["partner_id"] = T_Acme
    /\ template_rows[2]["partner_id"] = DefaultUser
    /\ customer_key = "Customer Name"

-----------------------------------------------------------------------------
(* C6 *)

\* C6: on every header row of document-number mode, user_id is the directory
\* entry under the trimmed, upper-cased salesperson code, and the default
\* name when the code is empty or has no entry; Salesperson equals user_id.
C6_SalespersonLookup ==
    DocMode =>
        \A j \in 1..Len(template_rows) :
            HasHeader(template_rows[j]) =>
                LET row == epicor_rows[SourceIndex(j)]
                    code == Upper(TrimmedCell(row, "Salesperson"))
                IN  /\ template_rows[j]["user_id"] =
                          IF code # Empty /\ \E e \in sp_map : e[1] = code
                          THEN (CHOOSE e \in sp_map : e[1] = code)[2]
                          ELSE DefaultSalesperson
                    /\ template_rows[j]["Salesperson"] = template_rows[j]["user_id"]

\* C6 witness: code "jd" resolved through key "JD", and code "zz" (no entry)
\* fell back to the default name, in one output.
C6_Witness ==
    /\ DocMode /\ pc = "returned"
    /\ Len(template_rows) = 2
    /\ RawCell(epicor_rows[1], "Salesperson") = T_jd
    /\ << << "J", "D" >>, T_JohnDoe >> \in sp_map
    /\ template_rows[1]["user_id"] = T_JohnDoe
    /\ RawCell(epicor_rows[2], "Salesperson") = T_zz
    /\ template_rows[2]["user_id"] = DefaultSalesperson

-----------------------------------------------------------------------------
(* C7 *)

\* C7 as stated: on every header row of document-number mode the Cust #
\* output is the trimmed value of the row's Cust # input field and nothing
\* else.
C7_CustMirrorsInput ==
    DocMode =>
        \A j \in 1..Len(template_rows) :
            HasHeader(template_rows[j]) =>
                template_rows[j]["Cust #"] =
                    TrimmedCell(epicor_rows[SourceIndex(j)], "Cust #")

\* C7 (amended): on every header row of document-number mode the Cust #
\* output is the trimmed value of the row's Cust # input field when that is
\* non-empty; otherwise it is the trimmed value of the resolved customer
\* column when that is non-empty, and otherwise "Default User".
C7_CustWithFallback ==
    DocMode =>
        \A j \in 1..Len(template_rows) :
            HasHeader(template_rows[j]) =>
                LET row == epicor_rows[SourceIndex(j)]
                    code == TrimmedCell(row, "Cust #")
                    customer == TrimmedCell(row, customer_key)
                IN  template_rows[j]["Cust #"] =
                        IF code # Empty THEN code
                        ELSE IF customer # Empty THEN customer
                        ELSE DefaultUser

\* C7 witness: one header row mirrors the code, one takes the customer name
\* because the code is empty.
C7_Witness ==
    /\ DocMode /\ pc = "returned"
    /\ Len(template_rows) = 2
    /\ RawCell(epicor_rows[1], "Cust #") = T_C7
    /\ template_rows[1]["Cust #"] = T_C7
    /\ RawCell(epicor_rows[2], "Cust #") = T_Empty
    /\ template_rows[2]["Cust #"] = T_Acme

-----------------------------------------------------------------------------
(* C8 *)

\* C8: in single-order mode (no document-number alias among the first row's
\* keys) the header fields are on the first emitted row and on no other:
\* name is "QO" followed by a clock reading, partner_id and Cust # are
\* "Default User", user_id and Salesperson are the default name whatever the
\* input's salesperson codes; every later row has all header fields empty,
\* and an input without a SKU-bearing row gives no row at all.
C8_SingleOrderHeader ==
    SingleMode =>
        /\ (pc = "returned" /\ SkuIndices = {}) => template_rows = << >>
        /\ \A j \in 1..Len(template_rows) :
              IF j = 1
              THEN /\ \E now \in Clock :
                          template_rows[j]["name"] = << "Q", "O" >> \o now
                   /\ template_rows[j]["partner_id"] = DefaultUser
                   /\ template_rows[j]["Cust #"] = DefaultUser
                   /\ template_rows[j]["user_id"] = DefaultSalesperson
                   /\ template_rows[j]["Salesperson"] = DefaultSalesperson
                   /\ template_rows[j]["activity_ids"] = Empty
              ELSE NoHeader(template_rows[j])

\* C8 witness: the first input row has no SKU, the two rows after it were
\* emitted, the first of them for a row with salesperson code "jd" that the
\* directory knows.
C8_Witness ==
    /\ SingleMode /\ pc = "returned"
    /\ SkuIndices = { 2, 3 }
    /\ Len(template_rows) = 2
    /\ RawCell(epicor_rows[2], "Salesperson") = T_jd
    /\ << << "J", "D" >>, T_JohnDoe >> \in sp_map
    /\ HasHeader(template_rows[1])

-----------------------------------------------------------------------------
(* C9 *)

\* C9: every emitted row, in both modes and with or without header fields,
\* has order_line/name, order_line/product_id and
\* order_line/product_template_id equal to "[" SKU "] " description, and
\* order_line/product_template_id/name equal to the trimmed description.
C9_LineFields ==
    \A j \in 1..Len(template_rows) :
        LET row == epicor_rows[SourceIndex(j)]
            sku == TrimmedCell(row, "SKU")
            description == TrimmedCell(row, "Description")
            composite == << "[" >> \o sku \o << "]", " " >> \o description
        IN  /\ template_rows[j]["order_line/name"] = composite
            /\ template_rows[j]["order_line/product_id"] = composite
            /\ template_rows[j]["order_line/product_template_id"] = composite
            /\ template_rows[j]["order_line/product_template_id/name"] = description

\* C9 witness: single-order mode emitted a header row for a padded
\* description and a row without header for an empty description.
C9_Witness ==
    /\ SingleMode /\ pc = "returned"
    /\ Len(template_rows) = 2
    /\ HasHeader(template_rows[1])
    /\ RawCell(epicor_rows[SourceIndex(1)], "Description") = T_WidgetSp
    /\ template_rows[1]["order_line/product_template_id/name"] = T_Widget
    /\ NoHeader(template_rows[2])
    /\ template_rows[2]["order_line/name"] = << "[", "X", "1", "]", " " >>
    /\ template_rows[2]["order_line/product_template_id/name"] = Empty

-----------------------------------------------------------------------------
(* C10 *)

\* A decimal with exactly two digits after the point.
IsTwoDecimal(s) ==
    /\ Len(s) >= 4
    /\ s[Len(s) - 2] = "."
    /\ IsDigit(s[Len(s) - 1])
    /\ IsDigit(s[Len(s)])
    /\ LET whole == SubSeq(s, 1, Len(s) - 3)
           digits == IF Head(whole) = "-" THEN Tail(whole) ELSE whole
       IN  digits # << >> /\ AllDigits(digits)

\* C10: the quantity and the price of every emitted row are decimals with
\* exactly two digits after the point; "1,250" gives "1250.00", "19.5"
\* gives "19.50", and "abc" and the empty text give "0.00".
C10_TwoDecimals ==
    \A j \in 1..Len(template_rows) :
        LET row == epicor_rows[SourceIndex(j)]
            qty == TrimmedCell(row, "Qty")
            price == TrimmedCell(row, "Price")
            qty_out == template_rows[j]["order_line/product_uom_qty"]
            price_out == template_rows[j]["order_line/price_unit"]
        IN  /\ IsTwoDecimal(qty_out)
            /\ IsTwoDecimal(price_out)
            /\ qty = T_1250 => qty_out = << "1", "2", "5", "0", ".", "0", "0" >>
            /\ price = T_19_5 => price_out = << "1", "9", ".", "5", "0" >>
            /\ qty \in { T_abc, Empty } => qty_out = << "0", ".", "0", "0" >>
            /\ price \in { T_abc, Empty } => price_out = << "0", ".", "0", "0" >>

-----------------------------------------------------------------------------
(* detect_delimiter and parse_rows: the file as bytes, decoded as the      *)
(* text layer of open() decodes it, chunk by chunk                         *)

\* Bytes are named by their character when ASCII ("a", ";", ",", "\n") and
\* by their hexadecimal value otherwise: "C3" opens a two-byte UTF-8
\* sequence, "E9" a three-byte one, "A9" is a continuation byte.
NL == "\n"

\* The number of continuation bytes a UTF-8 lead byte asks for.
Continuations(b) == IF b = "C3" THEN 1 ELSE IF b = "E9" THEN 2 ELSE 0

IsContinuation(b) == b = "A9"

\* The character a complete UTF-8 sequence encodes.
Utf8Char(seq) ==
    IF seq = << "C3", "A9" >> THEN "U+00E9"
    ELSE IF seq = << "E9", "A9", "A9" >> THEN "U+9A69"
    ELSE seq[1]

\* The character a byte is in Latin-1.
Latin1Char(b) ==
    IF b = "C3" THEN "U+00C3"
    ELSE IF b = "A9" THEN "U+00A9"
    ELSE IF b = "E9" THEN "U+00E9"
    ELSE b

MinOf(a, b) == IF a < b THEN a ELSE b

DecodeError == [ok |-> FALSE, chars |-> << >>, pending |-> << >>]

\* The incremental UTF-8 decoder on the bytes read so far: the characters
\* decoded, the bytes of an incomplete sequence at the end (kept for the
\* next chunk), or the error for a byte that cannot stand where it is.
RECURSIVE Utf8Decode(_)
Utf8Decode(bytes) ==
    IF bytes = << >> THEN [ok |-> TRUE, chars |-> << >>, pending |-> << >>]
    ELSE LET b == Head(bytes)
             n == Continuations(b)
             have == MinOf(n, Len(bytes) - 1)
         IN  IF IsContinuation(b) THEN DecodeError
             ELSE IF \E i \in 2..(have + 1) : ~IsContinuation(bytes[i])
             THEN DecodeError
             ELSE IF have < n
             THEN [ok |-> TRUE, chars |-> << >>, pending |-> bytes]
             ELSE LET rest == Utf8Decode(SubSeq(bytes, n + 2, Len(bytes)))
                  IN  IF rest.ok
                      THEN [rest EXCEPT !.chars =
                               << Utf8Char(SubSeq(bytes, 1, n + 1)) >> \o @]
                      ELSE DecodeError

\* The Latin-1 decoder: every byte is a character.
Latin1Decode(bytes) ==
    [ok |-> TRUE,
     chars |-> [i \in 1..Len(bytes) |-> Latin1Char(bytes[i])],
     pending |-> << >>]

\* open(..., encoding=enc): the decoder on the first n bytes of the file.
Decode(enc, bytes, n) ==
    IF enc = "utf-8" THEN Utf8Decode(SubSeq(bytes, 1, n))
    ELSE Latin1Decode(SubSeq(bytes, 1, n))

\* The index of the first line feed of text, 0 when it has none.
RECURSIVE FirstNL(_)
FirstNL(text) ==
    IF text = << >> THEN 0
    ELSE IF Head(text) = NL THEN 1
    ELSE IF FirstNL(Tail(text)) = 0 THEN 0 ELSE FirstNL(Tail(text)) + 1

\* Bytes the text layer reads from the file at a time (8192 in CPython; the
\* model scales it down with the files).
ChunkSize == 3

\* Iterating the text file: the lines handed out (each with its line feed)
\* before the end of the file or a decoding error.  n bytes have been read
\* and decoded, the characters before `from` have been handed out.  A line
\* is handed out as soon as the decoded text holds its line feed; another
\* chunk is read only when it does not.
RECURSIVE ReadLines(_, _, _, _, _)
ReadLines(enc, bytes, n, from, lines) ==
    LET text == Decode(enc, bytes, n).chars
        rest == SubSeq(text, from, Len(text))
        k == FirstNL(rest)
        more == MinOf(n + ChunkSize, Len(bytes))
    IN  IF k > 0
        THEN ReadLines(enc, bytes, n, from + k,
                       Append(lines, SubSeq(rest, 1, k)))
        ELSE IF n < Len(bytes)
        THEN IF Decode(enc, bytes, more).ok
             THEN ReadLines(enc, bytes, more, from, lines)
             ELSE [ok |-> FALSE, lines |-> lines]
        ELSE IF Decode(enc, bytes, n).pending # << >>
        THEN [ok |-> FALSE, lines |-> lines]
        ELSE [ok |-> TRUE,
              lines |-> IF rest = << >> THEN lines ELSE Append(lines, rest)]

\* f.readline() on a freshly opened file: the first line, or the decoding
\* error of a chunk read on the way to its line feed.
RECURSIVE Readline(_, _, _)
Readline(enc, bytes, n) ==
    LET text == Decode(enc, bytes, n).chars
        k == FirstNL(text)
        more == MinOf(n + ChunkSize, Len(bytes))
    IN  IF k > 0 THEN [ok |-> TRUE, line |-> SubSeq(text, 1, k)]
        ELSE IF n < Len(bytes)
        THEN IF Decode(enc, bytes, more).ok
             THEN Readline(enc, bytes, more)
             ELSE [ok |-> FALSE, line |-> << >>]
        ELSE IF Decode(enc, bytes, n).pending # << >>
        THEN [ok |-> FALSE, line |-> << >>]
        ELSE [ok |-> TRUE, line |-> text]

\* str.count of a one-character text.
Count(text, c) == Cardinality({ i \in 1..Len(text) : text[i] = c })

\* Mutant of DelimiterOf: a tie goes to the semicolon.
DelimiterOf_TieSemicolon(line) ==
    IF Count(line, ";") >= Count(line, ",") THEN ";" ELSE ","

\* ';' if first.count(';') > first.count(',') else ','
DelimiterOf(line) ==
    IF Count(line, ";") > Count(line, ",") THEN ";" ELSE ","

\* detect_delimiter: the first line read as UTF-8, as Latin-1 when that
\* raised UnicodeDecodeError.
detect_delimiter(bytes) ==
    LET utf8 == Readline("utf-8", bytes, 0)
    IN  IF utf8.ok THEN DelimiterOf(utf8.line)
        ELSE DelimiterOf(Readline("latin-1", bytes, 0).line)

\* A line without its line feed.
Chomp(line) ==
    IF line # << >> /\ line[Len(line)] = NL
    THEN SubSeq(line, 1, Len(line) - 1)
    ELSE line

\* csv.reader on a line without quotes: the fields between the delimiters;
\* no field at all for a blank line.
RECURSIVE SplitFields(_, _, _)
SplitFields(text, delim, field) ==
    IF text = << >> THEN << field >>
    ELSE IF Head(text) = delim
    THEN << field >> \o SplitFields(Tail(text), delim, << >>)
    ELSE SplitFields(Tail(text), delim, Append(field, Head(text)))

CsvFields(line, delim) ==
    IF Chomp(line) = << >> THEN << >>
    ELSE SplitFields(Chomp(line), delim, << >>)

\* The last position of key k in the field names.
LastIndex(fieldnames, k) ==
    CHOOSE i \in 1..Len(fieldnames) :
        /\ fieldnames[i] = k
        /\ \A j \in (i + 1)..Len(fieldnames) : fieldnames[j] # k

\* csv.DictReader.__next__: dict(zip(fieldnames, row)), the surplus fields
\* of a long row under the key None, None under the keys a short row does
\* not reach.
DictRow(fieldnames, fields) ==
    LET named == [k \in Range(fieldnames) |->
                     IF LastIndex(fieldnames, k) <= Len(fields)
                     THEN fields[LastIndex(fieldnames, k)]
                     ELSE None]
    IN  MkRow(fieldnames,
              IF Len(fields) > Len(fieldnames)
              THEN named @@ (None :> SubSeq(fields, Len(fieldnames) + 1,
                                            Len(fields)))
              ELSE named)

\* The rows csv.DictReader yields from the lines read: the first line gives
\* the field names, blank lines are passed over.
RECURSIVE DictRows(_, _, _)
DictRows(fieldnames, lines, delim) ==
    IF lines = << >> THEN << >>
    ELSE IF CsvFields(Head(lines), delim) = << >>
    THEN DictRows(fieldnames, Tail(lines), delim)
    ELSE << DictRow(fieldnames, CsvFields(Head(lines), delim)) >>
             \o DictRows(fieldnames, Tail(lines), delim)

DictReader(lines, delim) ==
    IF lines = << >> THEN << >>
    ELSE DictRows(CsvFields(Head(lines), delim), Tail(lines), delim)

\* delim = detect_delimiter(file_path); rows = []
DetectDelimiter ==
    /\ ppc = "detect"
    /\ delimiter' = detect_delimiter(file_bytes)
    /\ parsed_rows' = << >>
    /\ ppc' = "utf-8"
    /\ UNCHANGED << file_bytes, conv_vars, call_vars, thread_vars, batch_vars,
                    watch_vars,
                    shell_vars >>

\* The try block of parse_rows: every row the UTF-8 reader yields is
\* appended to rows; a UnicodeDecodeError ends the block.
ParseUtf8 ==
    /\ ppc = "utf-8"
    /\ LET read == ReadLines("utf-8", file_bytes, 0, 1, << >>)
       IN  /\ parsed_rows' = parsed_rows \o DictReader(read.lines, delimiter)
           /\ ppc' = IF read.ok THEN "returned" ELSE "latin-1"
    /\ UNCHANGED << file_bytes, delimiter, conv_vars, call_vars, thread_vars, batch_vars,
                    watch_vars,
                    shell_vars >>

\* The except block of parse_rows: every row the Latin-1 reader yields is
\* appended to the same rows; return rows.
ParseLatin1 ==
    /\ ppc = "latin-1"
    /\ LET read == ReadLines("latin-1", file_bytes, 0, 1, << >>)
       IN  parsed_rows' = parsed_rows \o DictReader(read.lines, delimiter)
    /\ ppc' = "returned"
    /\ UNCHANGED << file_bytes, delimiter, conv_vars, call_vars, thread_vars, batch_vars,
                    watch_vars,
                    shell_vars >>

\* Longest input file, in bytes.
MaxFileBytes == 5

ByteAlphabet == { "a", ";", ",", NL, "E9" }

\* Files with characters outside ASCII: "é" in UTF-8 in the header and in a
\* data line, "é" in Latin-1 behind two complete lines, a three-byte
\* character cut off by the end of the file.
AccentFiles ==
    { << "C3", "A9", ";", "a", NL, "a", ";", "C3", "A9", NL >>,
      << "a", ",", "a", NL, "a", NL, "a", ",", "E9", NL >>,
      << "a", ";", "a", NL, "a", ";", "a", NL, "a", ";", "E9", NL >>,
      << "a", NL, "E9", "A9", "A9", NL >>,
      << "a", NL, "a", NL, "E9", "A9" >>,
      << "a", NL, "A9", NL >> }

ParseFiles == TextsUpTo(ByteAlphabet, MaxFileBytes) \cup AccentFiles

InitParse ==
    /\ file_bytes \in ParseFiles
    /\ ppc = "detect"
    /\ delimiter = None
    /\ parsed_rows = << >>
    /\ ConvertIdle
    /\ ThreadsIdle
    /\ BatchIdle
    /\ WatchIdle
    /\ ShellsIdle

NextParse ==
    \/ DetectDelimiter
    \/ ParseUtf8
    \/ ParseLatin1

SpecParse == InitParse /\ [][NextParse]_vars

-----------------------------------------------------------------------------
(* C11 *)

\* The bytes of the first line: up to and including the first line feed.
FirstLineBytes(bytes) ==
    IF FirstNL(bytes) = 0 THEN bytes ELSE SubSeq(bytes, 1, FirstNL(bytes))

\* C11: detect_delimiter returns ";" exactly when the first line of the file
\* holds strictly more ";" than "," and returns "," otherwise (ties, neither
\* character); the bytes after the first line do not matter, and a first
\* line that is not UTF-8 is read as Latin-1 and still gives a delimiter.
C11_DelimiterFromFirstLine ==
    ppc # "detect" =>
        LET line == FirstLineBytes(file_bytes)
        IN  /\ delimiter \in { ";", "," }
            /\ delimiter = ";" <=> Count(line, ";") > Count(line, ",")

\* A first line that is not UTF-8 with more ";" than ",", in a file that
\* holds more "," than ";" overall.
C11_Witness ==
    /\ ppc = "utf-8"
    /\ delimiter = ";"
    /\ "E9" \in Range(FirstLineBytes(file_bytes))
    /\ ~Readline("utf-8", file_bytes, 0).ok
    /\ Count(file_bytes, ",") > Count(file_bytes, ";")

-----------------------------------------------------------------------------
(* C19 *)

\* The whole file decoded in one piece: as UTF-8 when all of it is UTF-8,
\* as Latin-1 otherwise.
WholeText ==
    LET utf8 == Utf8Decode(file_bytes)
    IN  IF utf8.ok /\ utf8.pending = << >> THEN utf8.chars
        ELSE Latin1Decode(file_bytes).chars

\* The lines of a text, each with its line feed.
RECURSIVE SplitLines(_)
SplitLines(text) ==
    IF text = << >> THEN << >>
    ELSE IF FirstNL(text) = 0 THEN << text >>
    ELSE << SubSeq(text, 1, FirstNL(text)) >>
            \o SplitLines(SubSeq(text, FirstNL(text) + 1, Len(text)))

\* C19: parse_rows returns one row per data line of the file, in file
\* order, also when the UTF-8 pass ends in a decoding error part-way: the
\* result is then the rows of the Latin-1 pass alone.
C19_EachLineOnce ==
    ppc = "returned" =>
        parsed_rows = DictReader(SplitLines(WholeText), delimiter)

-----------------------------------------------------------------------------
(* convert_rows on files whose header holds several aliases of one field   *)

\* Longest input file of the alias families.
MaxAliasRows == 2

\* Two aliases of the customer field and two of the document number, in
\* alias-list order and against it.
AliasOrderFiles ==
    LET cells == ("Cust #" :> { T_C7 })
                 @@ ("Customer Name" :> { T_Acme, T_Empty })
                 @@ ("Doc" :> { T_1 })
                 @@ ("Doc #" :> { T_2 })
                 @@ ("SKU" :> { T_X1, T_Empty })
    IN  FilesUpTo(RowsOf(<< "Cust #", "Customer Name", "Doc", "Doc #", "SKU" >>,
                         cells), 1)
        \cup FilesUpTo(RowsOf(<< "Customer Name", "Cust #", "Doc #", "Doc", "SKU" >>,
                              cells), 1)

\* Two aliases of the SKU field; the last column is None in a short row.
TwoSkuColumnFiles ==
    FilesUpTo(RowsOf(<< "Doc #", "Item", "SKU" >>,
                     ("Doc #" :> { T_1, T_2 })
                     @@ ("Item" :> { T_X2, T_Empty })
                     @@ ("SKU" :> { T_X1, T_Empty, None })),
              MaxAliasRows)
    \cup FilesUpTo(RowsOf(<< "Item", "SKU" >>,
                          ("Item" :> { T_X2, T_Empty })
                          @@ ("SKU" :> { T_X1, None })),
                   MaxAliasRows)

\* Document numbers that differ only by inner whitespace, in either order.
SpacedDocFiles ==
    FilesUpTo(RowsOf(<< "Doc #", "SKU" >>,
                     ("Doc #" :> { T_1_0, T_10 })
                     @@ ("SKU" :> { T_X1 })),
              MaxAliasRows)

AliasFiles == AliasOrderFiles \cup TwoSkuColumnFiles \cup SpacedDocFiles

InitAlias ==
    /\ epicor_rows \in AliasFiles
    /\ sp_file = NoFile
    /\ FreshProcess
    /\ ConvertEntry
    /\ ParseIdle
    /\ ThreadsIdle
    /\ BatchIdle
    /\ WatchIdle
    /\ ShellsIdle

SpecAlias == InitAlias /\ [][Next]_vars

\* The first name of the alias list that is among the header keys: the
\* column alias priority selects.  NoKey when the header has none.
RECURSIVE FirstAliasIn(_, _)
FirstAliasIn(aliases, header) ==
    IF aliases = << >> THEN NoKey
    ELSE IF Head(aliases) \in Range(header) THEN Head(aliases)
    ELSE FirstAliasIn(Tail(aliases), header)

-----------------------------------------------------------------------------
(* C12 *)

\* C12: the document-number, customer and customer-code columns resolved
\* from the first row's keys are each the first name of the alias list that
\* the header holds, whatever the order of the columns in the file: a header
\* with both "Cust #" and "Customer Name" resolves the customer to
\* "Customer Name".
C12_AliasPriority ==
    pc \notin { "resolve", "idle" } =>
        /\ doc_key = FirstAliasIn(doc_keys, header_keys)
        /\ customer_key = FirstAliasIn(customer_keys, header_keys)
        /\ cust_key = FirstAliasIn(cust_keys, header_keys)

-----------------------------------------------------------------------------
(* C13 *)

\* The input rows taken so far whose SKU, read from the one column alias
\* priority selects for the file, is not empty.
RowsWithFixedSku ==
    { i \in 1..(idx - 1) :
        TrimmedCell(epicor_rows[i], FirstAliasIn(sku_keys, header_keys)) # Empty }

\* C13: every row reads the SKU from the same column, fixed by the first
\* row's keys; a row with no value in that column has an empty SKU (and is
\* skipped), whatever a lower-priority alias column holds in that row.
C13_FixedColumn ==
    pc \in { "doc_loop", "single_loop", "returned" } =>
        Len(template_rows) = Cardinality(RowsWithFixedSku)

-----------------------------------------------------------------------------
(* _get_salesperson_map called from several threads of one process         *)

\* Threads that call convert_rows at the same time.
NThreads == 2

Threads == 1..NThreads

\* What a thread leaves alone: the locals of the conversion, the previous
\* call, the parser.
thread_frame ==
    << epicor_rows, header_keys, doc_key, customer_key, cust_key, sp_map, pc,
       idx, current_doc, first, quotation_number, template_rows, calls,
       prev_input, prev_rows, parse_vars, batch_vars, watch_vars,
                    shell_vars >>

\* "if _SALESPERSON_MAP is None": the thread reads the global.
ThreadCheck(t) ==
    /\ tpc[t] = "check"
    /\ tpc' = [tpc EXCEPT ![t] = IF NeedsLoad(SALESPERSON_MAP)
                                 THEN "load" ELSE "return"]
    /\ UNCHANGED << sp_file, SALESPERSON_MAP, loads, map_id, tloaded, tret,
                    thread_frame >>

\* _load_salesperson_map(): the thread reads the file into a new dict.
ThreadLoad(t) ==
    /\ tpc[t] = "load"
    /\ loads' = loads + 1
    /\ tloaded' = [tloaded EXCEPT ![t] =
                      [id |-> loads + 1, map |-> load_salesperson_map(sp_file)]]
    /\ tpc' = [tpc EXCEPT ![t] = "store"]
    /\ UNCHANGED << sp_file, SALESPERSON_MAP, map_id, tret, thread_frame >>

\* "_SALESPERSON_MAP = ...": the thread stores its dict in the global.
ThreadStore(t) ==
    /\ tpc[t] = "store"
    /\ SALESPERSON_MAP' = tloaded[t].map
    /\ map_id' = tloaded[t].id
    /\ tpc' = [tpc EXCEPT ![t] = "return"]
    /\ UNCHANGED << sp_file, loads, tloaded, tret, thread_frame >>

\* "return _SALESPERSON_MAP": the thread reads the global again.
ThreadReturn(t) ==
    /\ tpc[t] = "return"
    /\ tret' = [tret EXCEPT ![t] = map_id]
    /\ tpc' = [tpc EXCEPT ![t] = "done"]
    /\ UNCHANGED << sp_file, SALESPERSON_MAP, loads, map_id, tloaded,
                    thread_frame >>

\* "Sales Person List.csv" is written, created or removed by someone else.
SpFileChanges ==
    /\ \E file \in SalespersonFiles \ { sp_file } : sp_file' = file
    /\ UNCHANGED << SALESPERSON_MAP, epicor_rows, header_keys, doc_key,
                    customer_key, cust_key, sp_map, pc, idx, current_doc,
                    first, quotation_number, template_rows, call_vars,
                    other_vars >>

InitThreads ==
    /\ epicor_rows = << >>
    /\ sp_file \in SalespersonFiles
    /\ FreshProcess
    /\ ConvertLocals
    /\ pc = "idle"
    /\ ParseIdle
    /\ tpc = [t \in Threads |-> "check"]
    /\ tloaded = [t \in Threads |-> [id |-> 0, map |-> NoMap]]
    /\ tret = [t \in Threads |-> 0]
    /\ BatchIdle
    /\ WatchIdle
    /\ ShellsIdle

NextThreads ==
    \/ \E t \in Threads : ThreadCheck(t)
    \/ \E t \in Threads : ThreadLoad(t)
    \/ \E t \in Threads : ThreadStore(t)
    \/ \E t \in Threads : ThreadReturn(t)
    \/ SpFileChanges

SpecThreads == InitThreads /\ [][NextThreads]_vars

-----------------------------------------------------------------------------
(* C14 *)

\* C14: with several threads inside convert_rows, _load_salesperson_map is
\* executed at most once, and every thread is returned the same mapping
\* object.
C14_InitialisedOnce ==
    /\ loads <= 1
    /\ \A t, u \in Threads :
          (tpc[t] = "done" /\ tpc[u] = "done") => tret[t] = tret[u]

-----------------------------------------------------------------------------
(* Several convert_rows calls, one after the other, in one process         *)

\* convert_rows calls in one process.
MaxCalls == 2

\* Document-number files whose header fields go through the directory.
CallDocFiles ==
    FilesUpTo(RowsOf(<< "Doc #", "Salesperson", "SKU" >>,
                     ("Doc #" :> { T_1 })
                     @@ ("Salesperson" :> { T_jd, T_zz })
                     @@ ("SKU" :> { T_X1, T_Empty })),
              1)

\* Files without a document-number column.
CallSingleFiles ==
    FilesUpTo(RowsOf(<< "SKU", "Qty" >>,
                     ("SKU" :> { T_X1, T_Empty })
                     @@ ("Qty" :> { T_2 })),
              2)

CallFiles == CallDocFiles \cup CallSingleFiles

\* The caller takes the returned rows and calls convert_rows again, with
\* the same rows or with another file's.  template_rows still names the
\* returned list until the new call binds it to a new one.
CallAgain ==
    /\ pc = "returned"
    /\ calls < MaxCalls
    /\ calls' = calls + 1
    /\ prev_input' = epicor_rows
    /\ prev_rows' = template_rows
    /\ epicor_rows' \in CallFiles
    /\ header_keys' = << >>
    /\ doc_key' = NoKey
    /\ customer_key' = NoKey
    /\ cust_key' = NoKey
    /\ sp_map' = NoMap
    /\ idx' = 1
    /\ current_doc' = None
    /\ first' = TRUE
    /\ quotation_number' = Empty
    /\ pc' = "resolve"
    /\ UNCHANGED << sp_file, SALESPERSON_MAP, loads, map_id, template_rows,
                    other_vars >>

InitCalls ==
    /\ epicor_rows \in CallFiles
    /\ sp_file \in SalespersonFiles
    /\ FreshProcess
    /\ ConvertEntry
    /\ ParseIdle
    /\ ThreadsIdle
    /\ BatchIdle
    /\ WatchIdle
    /\ ShellsIdle

NextCalls ==
    \/ Next
    \/ CallAgain
    \/ SpFileChanges

SpecCalls == InitCalls /\ [][NextCalls]_vars

-----------------------------------------------------------------------------
(* C15 *)

\* Once loaded, the global keeps its object and its contents.
C15_CacheFrame ==
    SALESPERSON_MAP # NoMap =>
        /\ SALESPERSON_MAP' = SALESPERSON_MAP
        /\ map_id' = map_id
        /\ loads' = loads

\* C15: over any sequence of convert_rows calls in one process the directory
\* file is read at most once; from the first call on the cached mapping is
\* what every call uses, unchanged -- also when the file was missing at the
\* first load (the empty mapping is cached, the load is not retried) and
\* when the file changes afterwards.
C15_LoadedOnce ==
    /\ [](loads <= 1)
    /\ [](pc \in { "doc_loop", "single_init", "single_loop", "returned" } =>
            (loads = 1 /\ sp_map = SALESPERSON_MAP))
    /\ [][C15_CacheFrame]_vars

\* A second call that ran on the empty mapping cached when the file was
\* missing, with the file in place now.
C15_Witness ==
    /\ calls = 2
    /\ pc = "returned"
    /\ loads = 1
    /\ SALESPERSON_MAP = {}
    /\ sp_file.exists

-----------------------------------------------------------------------------
(* C18 *)

\* C18: two convert_rows calls on the same rows in one process return equal
\* outputs in document-number mode; without a document-number column the
\* outputs differ at most in the name of the first (header) row.
C18_Deterministic ==
    (pc = "returned" /\ calls >= 2 /\ prev_input = epicor_rows) =>
        /\ Len(template_rows) = Len(prev_rows)
        /\ \A j \in 1..Len(template_rows) :
              \A f \in Range(TEMPLATE_HEADERS) :
                 \/ template_rows[j][f] = prev_rows[j][f]
                 \/ (doc_key = NoKey /\ j = 1 /\ f = "name")

\* Two calls on the same document-number file, the directory file replaced
\* in between: the same header row, salesperson name included.
C18_Witness ==
    /\ pc = "returned"
    /\ calls = 2
    /\ prev_input = epicor_rows
    /\ doc_key # NoKey
    /\ Len(template_rows) = 1
    /\ template_rows = prev_rows
    /\ template_rows[1]["user_id"] = T_JohnDoe
    /\ ~sp_file.exists

-----------------------------------------------------------------------------
(* A folder of CSV files: the folder loop of sales_order_cli.py and         *)
(* SalesOrderConverter.process_all_files                                   *)

\* CSV files in the input folder.
NFiles == 3

Files == 1..NFiles

\* All orders in which os.listdir can give the files.
Listings ==
    { q \in [1..NFiles -> Files] : \A i, j \in 1..NFiles : q[i] = q[j] => i = j }

batch_frame == << conv_vars, call_vars, parse_vars, thread_vars, watch_vars,
                    shell_vars >>

\* Mutant of ParseOutcome: a file that cannot be opened reads as no rows.
ParseOutcome_Swallows(f) == "rows"

\* parse_rows / parse_epicor_csv: open() raises for a file that cannot be
\* opened, and neither function catches that.
ParseOutcome(f) == IF f = "unreadable" THEN "raise" ELSE "rows"

\* An exception leaves process_one / process_file: the CLI loop has no
\* handler, so it leaves main as well; process_all_files catches it, prints
\* it and goes on with the next file.
Raise ==
    /\ raised' = raised \cup { cur_file }
    /\ bpc' = IF tool = "cli" THEN "aborted" ELSE "loop"

\* os.listdir(...), filtered for .csv
ListFolder ==
    /\ bpc = "start"
    /\ queue' \in Listings
    /\ bpc' = "loop"
    /\ UNCHANGED << tool, fate, cur_file, writes, raised, processed, moved,
                    batch_frame >>

\* The for loop takes the next file and calls process_one / process_file.
TakeFile ==
    /\ bpc = "loop"
    /\ queue # << >>
    /\ cur_file' = Head(queue)
    /\ queue' = Tail(queue)
    /\ bpc' = "parse"
    /\ UNCHANGED << tool, fate, writes, raised, processed, moved,
                    batch_frame >>

\* rows = parse_rows(path)
ParseFile ==
    /\ bpc = "parse"
    /\ IF ParseOutcome(fate[cur_file]) = "raise"
       THEN Raise
       ELSE bpc' = "convert" /\ UNCHANGED raised
    /\ UNCHANGED << tool, fate, queue, cur_file, writes, processed, moved,
                    batch_frame >>

\* out_rows = convert_rows(rows); the output path.
ConvertFile ==
    /\ bpc = "convert"
    /\ bpc' = "write"
    /\ UNCHANGED << tool, fate, queue, cur_file, writes, raised, processed, moved,
                    batch_frame >>

\* write_template_csv(out_rows, out_path); the call returns.
WriteFile ==
    /\ bpc = "write"
    /\ IF fate[cur_file] = "unwritable"
       THEN Raise /\ UNCHANGED << writes, processed >>
       ELSE /\ writes' = [writes EXCEPT ![cur_file] = @ + 1]
            /\ processed' = processed \cup { cur_file }
            /\ bpc' = "loop"
            /\ UNCHANGED raised
    /\ UNCHANGED << tool, fate, queue, cur_file, moved, batch_frame >>

\* Mutant of MovedFiles: every file of the listing is moved.
MovedFiles_Listed == Files

\* The move loop of process_all_files over processed_files: shutil.move of
\* each converted input; a move that raises is reported ("Could not move")
\* and leaves the file in the input folder.
MovedFiles == { f \in processed : fate[f] # "unmovable" }

\* The loop is exhausted; process_all_files then moves the input files it
\* converted to the output folder.
FinishFolder ==
    /\ bpc = "loop"
    /\ queue = << >>
    /\ bpc' = "done"
    /\ moved' = IF tool = "legacy" THEN MovedFiles ELSE moved
    /\ UNCHANGED << tool, fate, queue, cur_file, writes, raised, processed,
                    batch_frame >>

InitBatch ==
    /\ tool \in { "cli", "legacy" }
    /\ fate \in [Files -> { "ok", "unreadable", "unwritable", "unmovable" }]
    /\ queue = << >>
    /\ bpc = "start"
    /\ cur_file = 0
    /\ writes = [f \in Files |-> 0]
    /\ raised = {}
    /\ processed = {}
    /\ moved = {}
    /\ ConvertIdle
    /\ ParseIdle
    /\ ThreadsIdle
    /\ WatchIdle
    /\ ShellsIdle

NextBatch ==
    \/ ListFolder
    \/ TakeFile
    \/ ParseFile
    \/ ConvertFile
    \/ WriteFile
    \/ FinishFolder

SpecBatch == InitBatch /\ [][NextBatch]_vars

-----------------------------------------------------------------------------
(* C16 *)

\* The call of process_one / process_file for file f has ended.
Ended(f) ==
    /\ bpc # "start"
    /\ f \notin Range(queue)
    /\ (f = cur_file => bpc \in { "loop", "done", "aborted" })

\* C16: when parse_rows raises because the file cannot be opened, the call
\* of process_one / process_file raises to its caller, and the file's
\* <base>_converted.csv is neither created nor modified.
C16_OpenFailureNoOutput ==
    bpc # "idle" =>
        \A f \in Files :
            fate[f] = "unreadable" =>
                /\ writes[f] = 0
                /\ f \notin processed
                /\ Ended(f) => f \in raised

\* The legacy converter met a file it could not open, after it had written
\* another file's output.
C16_Witness ==
    /\ tool = "legacy"
    /\ bpc = "loop"
    /\ cur_file \in raised
    /\ fate[cur_file] = "unreadable"
    /\ \E f \in Files : writes[f] = 1

-----------------------------------------------------------------------------
(* C17 *)

\* C17: in a folder of several CSV files, a file whose conversion raises
\* does not end the batch: every other CSV file of the folder is converted
\* and written.
C17_BatchIsolation ==
    bpc \in { "done", "aborted" } =>
        \A f \in Files : fate[f] = "ok" => writes[f] = 1

-----------------------------------------------------------------------------
(* auto_converter.watch_and_process: the polling loop, the converter it    *)
(* runs as a subprocess, and files arriving in to_be_processed             *)

\* The names that can appear in to_be_processed: a.csv, b.csv and c.CSV.
WatchNames ==
    { << "a", ".", "c", "s", "v" >>,
      << "b", ".", "c", "s", "v" >>,
      << "c", ".", "C", "S", "V" >> }

\* str.endswith
EndsWith(text, suffix) ==
    /\ Len(text) >= Len(suffix)
    /\ SubSeq(text, Len(text) - Len(suffix) + 1, Len(text)) = suffix

DotCsv == << ".", "c", "s", "v" >>

\* get_csv_files of auto_converter: filename.lower().endswith('.csv')
get_csv_files == { f \in folder : EndsWith(Lower(f), DotCsv) }

\* The listing of process_all_files: filename.endswith('.csv')
ConverterListing == { f \in folder : EndsWith(f, DotCsv) }

watch_frame == << conv_vars, call_vars, parse_vars, thread_vars, batch_vars,
                 shell_vars >>

\* Someone drops a file into to_be_processed.
Arrive ==
    /\ wpc # "idle"
    /\ \E f \in WatchNames \ arrived :
          /\ folder' = folder \cup { f }
          /\ arrived' = arrived \cup { f }
    /\ UNCHANGED << processed_files, wpc, cpc, csv_files, converted,
                    returncode, seen, watch_frame >>

\* One round of the loop without new files: the listing, the difference,
\* the sleep.
WatchPollNothing ==
    /\ wpc = "poll"
    /\ get_csv_files \ processed_files = {}
    /\ UNCHANGED << watch_vars, watch_frame >>

\* One round of the loop with new files: run_converter() starts the
\* converter and waits for it.
WatchPollNew ==
    /\ wpc = "poll"
    /\ get_csv_files \ processed_files # {}
    /\ wpc' = "wait"
    /\ cpc' = "list"
    /\ UNCHANGED << folder, arrived, processed_files, csv_files, converted,
                    returncode, seen, watch_frame >>

\* The converter ends before it has listed the folder, with a non-zero
\* return code.
ConverterFails ==
    /\ cpc = "list"
    /\ cpc' = "exited"
    /\ returncode' = 1
    /\ UNCHANGED << folder, arrived, processed_files, wpc, csv_files,
                    converted, seen, watch_frame >>

\* process_all_files: the listing of the input folder; return when empty.
ConverterList ==
    /\ cpc = "list"
    /\ csv_files' = ConverterListing
    /\ seen' = seen \cup ConverterListing
    /\ converted' = {}
    /\ IF ConverterListing = {}
       THEN cpc' = "exited" /\ returncode' = 0
       ELSE cpc' = "process" /\ UNCHANGED returncode
    /\ UNCHANGED << folder, arrived, processed_files, wpc, watch_frame >>

\* process_all_files: the loop over csv_files; a file whose conversion
\* raises is reported and left out of the converted ones.
ConverterProcess ==
    /\ cpc = "process"
    /\ \E ok \in SUBSET csv_files : converted' = ok
    /\ cpc' = "move"
    /\ UNCHANGED << folder, arrived, processed_files, wpc, csv_files,
                    returncode, seen, watch_frame >>

\* process_all_files: the converted input files are moved to the output
\* folder, apart from those whose move raises; the converter exits with
\* return code 0.
ConverterMove ==
    /\ cpc = "move"
    /\ \E unmoved \in SUBSET converted : folder' = folder \ (converted \ unmoved)
    /\ cpc' = "exited"
    /\ returncode' = 0
    /\ UNCHANGED << arrived, processed_files, wpc, csv_files, converted,
                    seen, watch_frame >>

\* run_converter() returns; on success processed_files becomes the files
\* in the folder now.
WatchAfterRun ==
    /\ wpc = "wait"
    /\ cpc = "exited"
    /\ processed_files' = IF returncode = 0 THEN get_csv_files
                          ELSE processed_files
    /\ wpc' = "poll"
    /\ cpc' = "off"
    /\ UNCHANGED << folder, arrived, csv_files, converted, returncode, seen,
                    watch_frame >>

InitWatch ==
    /\ folder = {}
    /\ arrived = {}
    /\ processed_files = {}
    /\ wpc = "poll"
    /\ cpc = "off"
    /\ csv_files = {}
    /\ converted = {}
    /\ returncode = 0
    /\ seen = {}
    /\ ConvertIdle
    /\ ParseIdle
    /\ ThreadsIdle
    /\ BatchIdle
    /\ ShellsIdle

NextWatch ==
    \/ Arrive
    \/ WatchPollNothing
    \/ WatchPollNew
    \/ ConverterFails
    \/ ConverterList
    \/ ConverterProcess
    \/ ConverterMove
    \/ WatchAfterRun

SpecWatch == InitWatch /\ [][NextWatch]_vars

-----------------------------------------------------------------------------
(* C20 *)

\* C20: watch_and_process loses no file: a file is in processed_files only
\* if a converter run has had it in its listing of the folder.
C20_NoFileLost == \A f \in processed_files : f \in seen

-----------------------------------------------------------------------------
(* C26 *)

\* C26: in document-number mode two successive header rows of one output
\* never carry the same name.
C26_DistinctNames ==
    DocMode =>
        \A j, k \in 1..Len(template_rows) :
            ( /\ j < k
              /\ HasHeader(template_rows[j])
              /\ HasHeader(template_rows[k])
              /\ \A m \in (j + 1)..(k - 1) : ~HasHeader(template_rows[m]) )
            => template_rows[j]["name"] # template_rows[k]["name"]

-----------------------------------------------------------------------------
(* C22 *)

\* C22: while the converter a watcher started is about to list the folder,
\* every file the watcher counts as new is a file the converter's own
\* filter accepts: the two filters accept the same names.
C22_SameFilter ==
    (wpc = "wait" /\ cpc = "list") =>
        (get_csv_files \ processed_files) \subseteq ConverterListing

-----------------------------------------------------------------------------
(* C23 *)

\* Moves happen in one place: after the loop over the listing is exhausted
\* and the call for every file has ended.
C23_MovesAfterLoop ==
    moved' # moved => (queue = << >> /\ \A f \in Files : Ended(f))

\* C23 as stated: when legacy process_all_files has ended, an input file
\* has been moved if and only if its conversion succeeded and its output
\* was written; a file whose conversion raised is still in the input
\* folder.
C23_MovedIffConverted ==
    (tool = "legacy" /\ bpc = "done") =>
        \A f \in Files :
            /\ f \in moved <=> (f \in processed /\ writes[f] = 1)
            /\ f \in raised => f \notin moved

\* C23, amended: a moved file is one whose conversion succeeded and whose
\* output was written; a converted file is moved unless the move itself
\* raised, in which case it stays in the input folder; a file whose
\* conversion raised stays; and all moves happen only after every file of
\* the batch has been attempted.
C23_MovedOnlyIfConverted ==
    /\ [](tool = "legacy" =>
            \A f \in Files :
                /\ f \in moved => (f \in processed /\ writes[f] = 1)
                /\ f \in raised => f \notin moved
                /\ (bpc = "done" /\ f \in processed) =>
                       (f \in moved <=> fate[f] # "unmovable"))
    /\ [][C23_MovesAfterLoop]_vars

\* The legacy converter has ended a batch in which one file was converted
\* and moved, one raised, and one was converted but could not be moved.
C23_Witness ==
    /\ tool = "legacy"
    /\ bpc = "done"
    /\ \E f, g, h \in Files :
          /\ f \in moved
          /\ g \in raised
          /\ h \in processed \ moved

-----------------------------------------------------------------------------
(* SalesOrderConverter.convert_to_template_format: the legacy conversion   *)

\* customer_keys of the legacy converter: no 'Cust #'.
legacy_customer_keys ==
    << "Customer Name", "CUSTOMER NAME", "Customer", "CLIENTE" >>

\* desc_keys of the legacy converter; the accented O of its last alias is
\* written "+" here.
legacy_desc_keys ==
    << "Description", "DESCRIPTION", "description", "DESCRIPCION",
       "DESCRIPCI+N" >>

\* The initial template_row of the legacy converter.
LegacyBlankHeader ==
    [f \in { "name", "partner_id", "user_id", "activity_ids" } |-> Empty]

\* template_row.update({...}): name, partner and the fixed user on the
\* first row of a group.
LegacyDocHeader(row, dk, ck) ==
    LET doc_number == get_val(row, << dk >>)
        cust_name == ValueAt(row, ck)
    IN  [LegacyBlankHeader EXCEPT
            !["name"] = OrderName(doc_number),
            !["partner_id"] = Or(cust_name, DefaultUser),
            !["user_id"] = DefaultSalesperson]

\* The header fields of the first row in the single-order fallback.
LegacySingleHeader(qn) ==
    [LegacyBlankHeader EXCEPT
        !["name"] = qn,
        !["partner_id"] = DefaultUser,
        !["user_id"] = DefaultSalesperson]

\* The order-line fields of the legacy converter.
LegacyLineFields(row) ==
    LET sku == get_val(row, sku_keys)
        description == get_val(row, legacy_desc_keys)
        qty == get_val(row, qty_keys)
        price == get_val(row, price_keys)
        ptid == ProductTemplateId(sku, description)
    IN  ("order_line/name" :> ptid)
        @@ ("order_line/product_uom_qty" :> FormatNumber(qty))
        @@ ("order_line/price_unit" :> FormatNumber(price))
        @@ ("order_line/product_id" :> ptid)
        @@ ("order_line/product_template_id/name" :> description)
        @@ ("order_line/product_template_id" :> ptid)

\* The loop of the document-number branch, from row i on, with current_doc.
RECURSIVE LegacyDocRows(_, _, _, _, _)
LegacyDocRows(rows, i, dk, ck, cur) ==
    IF i > Len(rows) THEN << >>
    ELSE LET row == rows[i]
             doc_number == get_val(row, << dk >>)
         IN  IF get_val(row, sku_keys) = Empty
             THEN LegacyDocRows(rows, i + 1, dk, ck, cur)
             ELSE IF IsNewGroup(doc_number, cur)
                  THEN << LegacyDocHeader(row, dk, ck) @@ LegacyLineFields(row) >>
                       \o LegacyDocRows(rows, i + 1, dk, ck, doc_number)
                  ELSE << LegacyBlankHeader @@ LegacyLineFields(row) >>
                       \o LegacyDocRows(rows, i + 1, dk, ck, cur)

\* The loop of the single-order fallback, from row i on, with first_row.
RECURSIVE LegacySingleRows(_, _, _, _)
LegacySingleRows(rows, i, first_row, qn) ==
    IF i > Len(rows) THEN << >>
    ELSE LET row == rows[i]
         IN  IF get_val(row, sku_keys) = Empty
             THEN LegacySingleRows(rows, i + 1, first_row, qn)
             ELSE << (IF first_row THEN LegacySingleHeader(qn)
                      ELSE LegacyBlankHeader) @@ LegacyLineFields(row) >>
                  \o LegacySingleRows(rows, i + 1, FALSE, qn)

\* convert_to_template_format(epicor_rows, ...); qn is the quotation number
\* the clock gives.  The three metadata arguments are not read.
convert_to_template_format(rows, qn) ==
    LET keys == IF rows # << >> THEN rows[1].keys ELSE << >>
        dk == FirstKeyIn(keys, doc_keys)
        ck == FirstKeyIn(keys, legacy_customer_keys)
    IN  IF dk # NoKey
        THEN LegacyDocRows(rows, 1, dk, ck, None)
        ELSE LegacySingleRows(rows, 1, TRUE, qn)

-----------------------------------------------------------------------------
(* C25 *)

\* The columns both converters are said to fill alike.
AgreedFields ==
    { "name", "partner_id", "activity_ids", "order_line/name",
      "order_line/product_uom_qty", "order_line/price_unit",
      "order_line/product_id", "order_line/product_template_id/name",
      "order_line/product_template_id" }

\* C25: for every row sequence the legacy conversion and convert_rows emit
\* the same number of rows and agree row by row on name, partner_id,
\* activity_ids and the six order_line columns.
C25_LegacyAgrees ==
    pc = "returned" =>
        LET legacy == convert_to_template_format(epicor_rows, quotation_number)
        IN  /\ Len(legacy) = Len(template_rows)
            /\ \A j \in 1..Len(legacy) :
                   \A f \in AgreedFields : legacy[j][f] = template_rows[j][f]

-----------------------------------------------------------------------------
(* file_watcher.py: main, SalesOrderFileWatcher, and the converter it runs *)
(* as a subprocess                                                         *)

\* Files dropped into the watch folder in one behaviour.
MaxArrivals == 3

\* The names the class body of SalesOrderFileWatcher binds.
ClassMethods ==
    { "__init__", "get_csv_files", "run_converter", "watch_folder",
      "check_requirements" }

\* The instance attributes __init__ sets, each with the type of its value.
InstanceAfterInit ==
    ("watch_folder" :> "str")
    @@ ("converter_script" :> "str")
    @@ ("processed_files" :> "set")
    @@ ("check_interval" :> "int")

\* watcher.<name>: the instance attribute when there is one, else the
\* method of the class.
GetAttr(instance, name) ==
    IF name \in DOMAIN instance THEN instance[name]
    ELSE IF name \in ClassMethods THEN "method"
    ELSE "AttributeError"

\* Calling the value succeeds for a method; for a str it raises TypeError.
Callable(value) == value = "method"

fw_frame == << conv_vars, call_vars, parse_vars, thread_vars, batch_vars,
               http_vars, arrived, wpc >>

\* Someone drops a file into to_be_processed (again, when a file of that
\* name was moved away before).
FwArrive ==
    /\ fpc \notin { "idle", "fatal", "returned", "stopped" }
    /\ arrivals < MaxArrivals
    /\ \E f \in WatchNames \ folder :
          /\ folder' = folder \cup { f }
          /\ untriggered' = IF fpc \in { "poll", "wait" }
                            THEN untriggered \cup { f }
                            ELSE untriggered
    /\ arrivals' = arrivals + 1
    /\ UNCHANGED << fpc, attrs, requirements, current_files, processed_files,
                    cpc, csv_files, converted, returncode, seen, fw_frame >>

\* main: watcher = SalesOrderFileWatcher()
FwConstruct ==
    /\ fpc = "main"
    /\ attrs' = InstanceAfterInit
    /\ processed_files' = {}
    /\ fpc' = "check"
    /\ UNCHANGED << requirements, current_files, arrivals, untriggered, folder,
                    cpc, csv_files, converted, returncode, seen, fw_frame >>

\* main: if not watcher.check_requirements(): return
FwCheckRequirements ==
    /\ fpc = "check"
    /\ fpc' = IF requirements THEN "call" ELSE "returned"
    /\ UNCHANGED << attrs, requirements, current_files, arrivals, untriggered,
                    folder, processed_files, cpc, csv_files, converted,
                    returncode, seen, fw_frame >>

\* main: try: watcher.watch_folder() except Exception: print "Fatal error"
FwCallWatchFolder ==
    /\ fpc = "call"
    /\ fpc' = IF Callable(GetAttr(attrs, "watch_folder"))
              THEN "watch_folder"
              ELSE "fatal"
    /\ UNCHANGED << attrs, requirements, current_files, arrivals, untriggered,
                    folder, processed_files, cpc, csv_files, converted,
                    returncode, seen, fw_frame >>

\* watch_folder, before the loop: the files already present start a
\* converter run; without any, processed_files = set().
FwExisting ==
    /\ fpc = "watch_folder"
    /\ IF get_csv_files # {}
       THEN /\ fpc' = "wait_first"
            /\ cpc' = "list"
            /\ UNCHANGED processed_files
       ELSE /\ fpc' = "poll"
            /\ processed_files' = {}
            /\ UNCHANGED cpc
    /\ UNCHANGED << attrs, requirements, current_files, arrivals, untriggered,
                    folder, csv_files, converted, returncode, seen, fw_frame >>

\* watch_folder, before the loop: run_converter() has returned;
\* processed_files = self.get_csv_files()
FwAfterFirstRun ==
    /\ fpc = "wait_first"
    /\ cpc = "exited"
    /\ processed_files' = get_csv_files
    /\ fpc' = "poll"
    /\ cpc' = "off"
    /\ UNCHANGED << attrs, requirements, current_files, arrivals, untriggered,
                    folder, csv_files, converted, returncode, seen, fw_frame >>

\* One round of the loop without new files, and the sleep.
FwPollNothing ==
    /\ fpc = "poll"
    /\ get_csv_files \ processed_files = {}
    /\ current_files' = get_csv_files
    /\ UNCHANGED << fpc, attrs, requirements, arrivals, untriggered, folder,
                    processed_files, cpc, csv_files, converted, returncode,
                    seen, fw_frame >>

\* One round of the loop with new files: run_converter() starts the
\* converter and waits for it.
FwPollNew ==
    /\ fpc = "poll"
    /\ get_csv_files \ processed_files # {}
    /\ current_files' = get_csv_files
    /\ untriggered' = untriggered \ (get_csv_files \ processed_files)
    /\ fpc' = "wait"
    /\ cpc' = "list"
    /\ UNCHANGED << attrs, requirements, arrivals, folder, processed_files,
                    csv_files, converted, returncode, seen, fw_frame >>

\* run_converter: subprocess.run(..., timeout=60) ends the converter that
\* has not finished in time.
FwConverterTimeout ==
    /\ fpc \in { "wait_first", "wait" }
    /\ cpc \in { "list", "process", "move" }
    /\ cpc' = "exited"
    /\ returncode' = 1
    /\ UNCHANGED << fpc, attrs, requirements, current_files, arrivals,
                    untriggered, folder, processed_files, csv_files,
                    converted, seen, fw_frame >>

\* run_converter() has returned, whatever the outcome;
\* self.processed_files = current_files, and the sleep.
FwAfterRun ==
    /\ fpc = "wait"
    /\ cpc = "exited"
    /\ processed_files' = current_files
    /\ fpc' = "poll"
    /\ cpc' = "off"
    /\ UNCHANGED << attrs, requirements, current_files, arrivals, untriggered,
                    folder, csv_files, converted, returncode, seen, fw_frame >>

\* Ctrl+C during the sleep: "File watcher stopped by user".
FwInterrupt ==
    /\ fpc = "poll"
    /\ fpc' = "stopped"
    /\ UNCHANGED << attrs, requirements, current_files, arrivals, untriggered,
                    folder, processed_files, cpc, csv_files, converted,
                    returncode, seen, fw_frame >>

\* python file_watcher.py (main), or the method watch_folder entered
\* through the class, SalesOrderFileWatcher.watch_folder(watcher).
InitFileWatcher ==
    /\ \/ fpc = "main" /\ attrs = << >> /\ requirements \in BOOLEAN
       \/ fpc = "watch_folder" /\ attrs = InstanceAfterInit /\ requirements = TRUE
    /\ current_files = {}
    /\ arrivals = 0
    /\ untriggered = {}
    /\ folder = {}
    /\ arrived = {}
    /\ processed_files = {}
    /\ wpc = "idle"
    /\ cpc = "off"
    /\ csv_files = {}
    /\ converted = {}
    /\ returncode = 0
    /\ seen = {}
    /\ ConvertIdle
    /\ ParseIdle
    /\ ThreadsIdle
    /\ BatchIdle
    /\ HttpIdle

NextFileWatcher ==
    \/ FwArrive
    \/ FwConstruct
    \/ FwCheckRequirements
    \/ FwCallWatchFolder
    \/ FwExisting
    \/ FwAfterFirstRun
    \/ FwPollNothing
    \/ FwPollNew
    \/ FwConverterTimeout
    \/ FwAfterRun
    \/ FwInterrupt
    \/ ConverterFails
    \/ ConverterList
    \/ ConverterProcess
    \/ ConverterMove

SpecFileWatcher == InitFileWatcher /\ [][NextFileWatcher]_vars

-----------------------------------------------------------------------------
(* C21 *)

\* C21: in the polling loop every arrival is detected as new: a file that
\* was dropped during the loop, is in the folder and has not yet been
\* counted as new by a round of the loop is not in processed_files, so the
\* next round counts it as new and starts the converter.
C21_ArrivalDetected ==
    fpc = "poll" =>
        \A f \in untriggered \cap get_csv_files : f \notin processed_files

-----------------------------------------------------------------------------
(* C27 *)

\* C27: when check_requirements succeeds, main's call watcher.watch_folder()
\* executes the method; main does not end with "Fatal error".
C27_ReachesLoop == requirements => fpc # "fatal"

-----------------------------------------------------------------------------
(* app.py: POST /convert, served by one or more worker processes that      *)
(* share the folder to_be_processed                                        *)

\* Requests in flight.
NRequests == 2

\* Worker processes serving the application (uvicorn --workers).
NWorkers == 2

HttpRequests == 1..NRequests

HttpWorkers == 1..NWorkers

\* file.filename of an upload.
UploadNames ==
    { << "x", ".", "c", "s", "v" >>, << "y", ".", "c", "s", "v" >> }

\* The bytes of an upload.
Uploads == { << "a", NL >>, << "a", ";", NL >> }

\* No file under that name in to_be_processed.
Absent == [exists |-> FALSE, bytes |-> << >>, writer |-> 0]

\* open(temp_path, 'wb') ... f.write(contents): the file holds those bytes,
\* whatever it held before.
Stored(bytes, r) == [exists |-> TRUE, bytes |-> bytes, writer |-> r]

NoResponse == [status |-> 0, of |-> << >>]

\* The StreamingResponse: the conversion of the rows parse_rows read, here
\* known by the bytes they were read from.
Converted(bytes) == [status |-> 200, of |-> bytes]

\* The response to a request whose handler raised.
ServerError == [status |-> 500, of |-> << >>]

\* The positions between the resumption after `await file.read()` and the
\* return: the handler runs them without another await.
SyncSection == { "write", "parse", "convert", "remove" }

\* The event loop of worker w is running no handler.
LoopFree(w) ==
    \A q \in HttpRequests :
        requests[q].worker = w => requests[q].pc \notin SyncSection

http_frame == << conv_vars, call_vars, parse_vars, thread_vars, batch_vars,
                 watch_vars, fw_vars >>

\* contents = await file.read(): the handler resumes when its worker's
\* event loop is free.
HttpRead(r) ==
    /\ requests[r].pc = "read"
    /\ LoopFree(requests[r].worker)
    /\ requests' = [requests EXCEPT ![r].pc = "write"]
    /\ UNCHANGED << temp_files, http_frame >>

\* temp_path = os.path.join("to_be_processed", file.filename); the bytes
\* are written to it.
HttpWrite(r) ==
    /\ requests[r].pc = "write"
    /\ temp_files' = [temp_files EXCEPT
                         ![requests[r].name] = Stored(requests[r].upload, r)]
    /\ requests' = [requests EXCEPT ![r].pc = "parse"]
    /\ UNCHANGED http_frame

\* rows = parse_rows(temp_path): open() raises when the file is gone.
HttpParse(r) ==
    /\ requests[r].pc = "parse"
    /\ LET file == temp_files[requests[r].name]
       IN  IF file.exists
           THEN requests' = [requests EXCEPT ![r].pc = "convert",
                                             ![r].parsed = file.bytes]
           ELSE requests' = [requests EXCEPT ![r].pc = "remove",
                                             ![r].response = ServerError]
    /\ UNCHANGED << temp_files, http_frame >>

\* out_rows = convert_rows(rows); the CSV text; return StreamingResponse.
HttpConvert(r) ==
    /\ requests[r].pc = "convert"
    /\ requests' = [requests EXCEPT ![r].pc = "remove",
                                    ![r].response = Converted(requests[r].parsed)]
    /\ UNCHANGED << temp_files, http_frame >>

\* finally: os.remove(temp_path), an exception of which is passed over.
HttpRemove(r) ==
    /\ requests[r].pc = "remove"
    /\ temp_files' = [temp_files EXCEPT ![requests[r].name] = Absent]
    /\ requests' = [requests EXCEPT ![r].pc = "done"]
    /\ UNCHANGED http_frame

InitHttp ==
    /\ requests \in [HttpRequests ->
                        [pc : { "read" }, worker : HttpWorkers,
                         name : UploadNames, upload : Uploads,
                         parsed : { << >> }, response : { NoResponse }]]
    /\ temp_files = [n \in UploadNames |-> Absent]
    /\ ConvertIdle
    /\ ParseIdle
    /\ ThreadsIdle
    /\ BatchIdle
    /\ WatchIdle
    /\ FileWatcherIdle

NextHttp ==
    \E r \in HttpRequests :
        \/ HttpRead(r)
        \/ HttpWrite(r)
        \/ HttpParse(r)
        \/ HttpConvert(r)
        \/ HttpRemove(r)

SpecHttp == InitHttp /\ [][NextHttp]_vars

-----------------------------------------------------------------------------
(* C24 *)

\* C24: once a request has finished, its response is the conversion of the
\* bytes it uploaded, and no file it wrote is left in to_be_processed.
C24_OwnBytesAndCleanup ==
    \A r \in DOMAIN requests :
        requests[r].pc = "done" =>
            /\ requests[r].response = Converted(requests[r].upload)
            /\ temp_files[requests[r].name].writer # r

====
